---- MODULE Spec2Model ----
(***************************************************************************)
(* A model of the transcription pipeline of elevenlabs-scribe-transcriber: *)
(* the orchestrator transcribeWithScribe (src/src/transcriber.ts) with the *)
(* helpers it calls (splitAudio, appendToFile, groupBySpeaker, ... of      *)
(* utils.ts), and the speaker grouper as a machine of its own.             *)
(*                                                                         *)
(* Strings are sequences of tokens, so that concatenation is \o and the    *)
(* empty string is << >>.  Times are integers (milliseconds).              *)
(***************************************************************************)
EXTENDS Integers, Sequences, FiniteSets, TLC

VARIABLES
    \* ---- transcribeWithScribe: the run and its environment ----
    pc,                   \* position in transcribeWithScribe / splitAudio
    apiKey,               \* process.env.ELEVENLABS_API_KEY is set
    outputFile,           \* options.outputFile: "given" or "null"
    outputFormat,         \* options.outputFormat: "text" or "json"
    diarize,              \* options.diarize
    priorFile,            \* what the output path held before the run
    file,                 \* content of the output file, a sequence of written pieces
    calls,                \* the calls made to the collaborators, in order
    totalDurationMs,      \* the duration ffprobe reports for the input
    segmentLength,        \* splitAudio's segmentLength argument
    numSegments,          \* splitAudio local
    requests,             \* the extractions splitAudio asked ffmpeg for, in order
    segmentPaths,         \* splitAudio local, then the orchestrator's segmentPaths
    splitOk,              \* splitAudio returned its list to the orchestrator
    segFiles,             \* indexes of the segment files on disk
    splitError,           \* what splitAudio threw: << >> or <<the error>>
    transcriptionResults, \* the multi-segment loop's results
    transcription,        \* the result given to processTranscriptionResult
    pending,              \* processTranscriptionResult: pieces still to append
    formatLog,            \* the calls of processTranscriptionResult
    unlinked,             \* number of segment paths the cleanup loop has handled
    inFlight,             \* the paths of the transcribeSegment calls begun and not settled
    exitCode,             \* the value returned: 0, 1, or -1 while running
    \* ---- groupBySpeaker as a machine of its own ----
    gpc,                  \* position in groupBySpeaker
    gWords,               \* its argument
    gPos,                 \* index of the next word of the for loop
    grouper,              \* its locals: currentSpeaker, currentText, currentStart, conversation
    gResult,              \* the value returned
    \* ---- extractSentences as a machine of its own ----
    spc,                  \* position in extractSentences
    sWords,               \* its argument
    sPos,                 \* index of the next word of the for loop
    sentencer,            \* its locals: currentSentence, currentStart, sentences
    sResult,              \* the value returned
    \* ---- transcribeSegment as a machine of its own ----
    tpc,                  \* position in transcribeSegment
    tOptions,             \* its options argument
    tRequests,            \* the requests sent to speechToText.convert, in order
    tResponse,            \* how the convert call settled: its answer or its error
    tResult,              \* the value returned
    tThrown,              \* the value thrown to the caller
    tConsole,             \* what transcribeSegment wrote with console.error, in order
    debugMode,            \* process.env.DEBUG === 'true'
    \* ---- processTranscriptionResult of the output formatter, on its own ----
    fpc,                  \* position in processTranscriptionResult
    fTranscription,       \* the result it is given
    fOptions,             \* its options: outputFormat, diarize, showTimestamp
    fPending,             \* the rendered pieces still to append
    fInFlight,            \* the appendToFile calls begun and not yet settled
    fFile,                \* what has been appended to the output file, in order
    fConsole,             \* what has been written to the console, in order
    \* ---- mergeTranscriptions as a machine of its own ----
    mpc,                  \* position in mergeTranscriptions
    mTranscriptions,      \* its argument
    mPos,                 \* index of the next element of the for loop
    mMerged,              \* its local, merged
    mResult,              \* the value returned
    \* ---- the entry points: main of the cli, transcribe of the library ----
    entry,                \* which entry point runs
    mainPc,               \* position in the entry point
    inputPath,            \* the kind of input given
    audioPath,            \* the path handed on to transcribeWithScribe
    processExit           \* the code the entry point ends with, or -1

orchVars == <<pc, apiKey, outputFile, outputFormat, diarize, priorFile, file, calls,
              totalDurationMs, segmentLength, numSegments, requests, segmentPaths,
              splitOk, segFiles, splitError, transcriptionResults, transcription,
              pending, formatLog, unlinked, inFlight, exitCode>>

groupVars == <<gpc, gWords, gPos, grouper, gResult>>

sentenceVars == <<spc, sWords, sPos, sentencer, sResult>>

adapterVars == <<tpc, tOptions, tRequests, tResponse, tResult, tThrown, tConsole, debugMode>>

formatterVars == <<fpc, fTranscription, fOptions, fPending, fInFlight, fFile, fConsole>>

mergeVars == <<mpc, mTranscriptions, mPos, mMerged, mResult>>

mainVars == <<entry, mainPc, inputPath, audioPath, processExit>>

vars == <<orchVars, groupVars, sentenceVars, adapterVars, formatterVars, mergeVars,
          mainVars>>

\* what each machine leaves alone: the variables of the others
notOrch == <<groupVars, sentenceVars, adapterVars, formatterVars, mergeVars, mainVars>>

(***************************************************************************)
(* Bounds of the model.                                                    *)
(***************************************************************************)
MaxWords == 3          \* longest word sequence given to groupBySpeaker on its own
MaxChunks == 2         \* most segments an input of the orchestrator splits into
MaxDuration == 7       \* largest duration given to splitAudio on its own
MaxSegmentLength == 3  \* largest segment length given to splitAudio on its own

(***************************************************************************)
(* Words.  speaker_id is optional in TranscriptionWord: Undefined is the   *)
(* absent field.                                                           *)
(***************************************************************************)
Undefined == "undefined"
Null == "null"
SpeakerIds == {"speaker_1", "speaker_2"}
Tokens == {"Hello", " world", "Hi"}
WordTexts == {<< >>} \cup {<<t>> : t \in Tokens}

Word(text, start, speaker) == [text |-> text, start |-> start, speaker_id |-> speaker]

RECURSIVE WordSeqs(_)
\* every word sequence of length n; the word at position p starts at time p - 1
WordSeqs(n) ==
    IF n = 0 THEN {<< >>}
    ELSE {Append(ws, Word(t, n - 1, s)) :
            ws \in WordSeqs(n - 1), t \in WordTexts, s \in SpeakerIds \cup {Undefined}}

WordInputs == UNION {WordSeqs(n) : n \in 0..MaxWords}

RECURSIVE ConcatTexts(_)
\* the concatenation, in order, of the text fields of a sequence of records
ConcatTexts(seq) ==
    IF seq = << >> THEN << >> ELSE Head(seq).text \o ConcatTexts(Tail(seq))

(***************************************************************************)
(* groupBySpeaker (utils.ts).                                              *)
(***************************************************************************)
GroupLocals == [currentSpeaker |-> Null, currentText |-> << >>, currentStart |-> 0,
                conversation |-> << >>]

\* const speakerId = word.speaker_id ?? "unknown_speaker"
SpeakerIdOf(word) ==
    IF word.speaker_id = Undefined THEN "unknown_speaker" ELSE word.speaker_id

Utterance(s) == [speaker |-> s.currentSpeaker, text |-> s.currentText,
                 start |-> s.currentStart]

\* a plausible slip: on a speaker change the new accumulation starts empty
GroupWordDropsFirst(s, word) ==
    LET speakerId == SpeakerIdOf(word) IN
    IF s.currentSpeaker = Null
    THEN [s EXCEPT !.currentSpeaker = speakerId, !.currentText = word.text,
                   !.currentStart = word.start]
    ELSE IF s.currentSpeaker = speakerId
    THEN [s EXCEPT !.currentText = @ \o word.text]
    ELSE [s EXCEPT !.conversation = Append(@, Utterance(s)),
                   !.currentSpeaker = speakerId, !.currentText = << >>,
                   !.currentStart = word.start]

\* a plausible slip: the start of the accumulation follows every word
GroupWordMovesStart(s, word) ==
    LET speakerId == SpeakerIdOf(word) IN
    IF s.currentSpeaker = Null
    THEN [s EXCEPT !.currentSpeaker = speakerId, !.currentText = word.text,
                   !.currentStart = word.start]
    ELSE IF s.currentSpeaker = speakerId
    THEN [s EXCEPT !.currentText = @ \o word.text, !.currentStart = word.start]
    ELSE [s EXCEPT !.conversation = Append(@, Utterance(s)),
                   !.currentSpeaker = speakerId, !.currentText = word.text,
                   !.currentStart = word.start]

\* the body of the for loop, for one word
GroupWord(s, word) ==
    LET speakerId == SpeakerIdOf(word) IN
    IF s.currentSpeaker = Null
    THEN [s EXCEPT !.currentSpeaker = speakerId, !.currentText = word.text,
                   !.currentStart = word.start]
    ELSE IF s.currentSpeaker = speakerId
    THEN [s EXCEPT !.currentText = @ \o word.text]
    ELSE [s EXCEPT !.conversation = Append(@, Utterance(s)),
                   !.currentSpeaker = speakerId, !.currentText = word.text,
                   !.currentStart = word.start]

\* a plausible slip: the last accumulation is pushed twice
GroupEndPushesTwice(s) ==
    IF Len(s.currentText) > 0 /\ s.currentSpeaker # Null
    THEN s.conversation \o <<Utterance(s), Utterance(s)>>
    ELSE s.conversation

\* after the loop: if (currentText && currentSpeaker !== null) push; return conversation
GroupEnd(s) ==
    IF Len(s.currentText) > 0 /\ s.currentSpeaker # Null
    THEN Append(s.conversation, Utterance(s))
    ELSE s.conversation

RECURSIVE GroupFold(_, _)
GroupFold(s, words) ==
    IF words = << >> THEN s ELSE GroupFold(GroupWord(s, Head(words)), Tail(words))

groupBySpeaker(words) == GroupEnd(GroupFold(GroupLocals, words))

(***************************************************************************)
(* groupBySpeaker as a machine: one step per word of the loop.             *)
(***************************************************************************)
GroupIdle ==
    /\ gpc = "idle" /\ gWords = << >> /\ gPos = 1
    /\ grouper = GroupLocals /\ gResult = << >>

GroupLoop ==
    /\ gpc = "loop"
    /\ gPos <= Len(gWords)
    /\ grouper' = GroupWord(grouper, gWords[gPos])
    /\ gPos' = gPos + 1
    /\ UNCHANGED <<gpc, gWords, gResult>>
    /\ UNCHANGED <<orchVars, sentenceVars, adapterVars, formatterVars,
                 mergeVars, mainVars>>

GroupReturn ==
    /\ gpc = "loop"
    /\ gPos > Len(gWords)
    /\ gResult' = GroupEnd(grouper)
    /\ gpc' = "returned"
    /\ UNCHANGED <<gWords, gPos, grouper>>
    /\ UNCHANGED <<orchVars, sentenceVars, adapterVars, formatterVars,
                 mergeVars, mainVars>>

(***************************************************************************)
(* extractSentences (output formatter).  A text is here a sequence of       *)
(* characters, so that trim() and the test of a whole text can be modelled. *)
(***************************************************************************)
MaxSentenceWords == 4  \* longest word sequence given to extractSentences on its own

\* the characters String.prototype.trim removes that occur in the inputs
Whitespace == {" ", "\n"}

\* the word texts of the inputs: none, a blank, a full stop, letters, a blank and a
\* letter, a letter and a full stop
SentenceTexts == {<< >>, <<" ">>, <<".">>, <<"H">>, <<" ", "w">>, <<"B">>, <<"w", ".">>}

RECURSIVE SentenceWordSeqs(_)
\* every word sequence of length n; the word at position p starts at time p - 1
SentenceWordSeqs(n) ==
    IF n = 0 THEN {<< >>}
    ELSE {Append(ws, Word(t, n - 1, Undefined)) :
            ws \in SentenceWordSeqs(n - 1), t \in SentenceTexts}

SentenceInputs == UNION {SentenceWordSeqs(n) : n \in 0..MaxSentenceWords}

RECURSIVE TrimStart(_)
TrimStart(text) ==
    IF text # << >> /\ Head(text) \in Whitespace THEN TrimStart(Tail(text)) ELSE text

RECURSIVE TrimEnd(_)
TrimEnd(text) ==
    IF text # << >> /\ text[Len(text)] \in Whitespace
    THEN TrimEnd(SubSeq(text, 1, Len(text) - 1))
    ELSE text

\* String.prototype.trim
Trim(text) == TrimEnd(TrimStart(text))

\* a plausible slip: the pattern is not anchored at the beginning of the text
isSentenceEndMarkerAtEnd(text) ==
    Len(text) >= 1 /\ text[Len(text)] \in {"U+3002", "U+FF01", "U+FF1F", ".", "!", "?"}

\* /^[U+3002 U+FF01 U+FF1F . ! ?]$/.test(text)
isSentenceEndMarker(text) ==
    Len(text) = 1 /\ text[1] \in {"U+3002", "U+FF01", "U+FF1F", ".", "!", "?"}

\* let currentSentence = ""; let currentStart: number | null = null; sentences = [];
\* currentStart is << >> for null and <<n>> for the number n
SentenceLocals == [currentSentence |-> << >>, currentStart |-> << >>, sentences |-> << >>]

\* a plausible slip: the accumulation is tested before it is trimmed
SentencePushUntrimmedTest(s) ==
    IF s.currentSentence # << >> /\ s.currentStart # << >>
    THEN Append(s.sentences, [text |-> Trim(s.currentSentence), start |-> s.currentStart[1]])
    ELSE s.sentences

\* if (currentSentence.trim() !== "" && currentStart !== null)
\*   sentences.push({ text: currentSentence.trim(), start: currentStart })
SentencePush(s) ==
    IF Trim(s.currentSentence) # << >> /\ s.currentStart # << >>
    THEN Append(s.sentences, [text |-> Trim(s.currentSentence), start |-> s.currentStart[1]])
    ELSE s.sentences

\* the body of the for loop, for one word
SentenceWord(s, word) ==
    LET started == IF s.currentSentence = << >>
                   THEN [s EXCEPT !.currentStart = <<word.start>>]
                   ELSE s
        added == [started EXCEPT !.currentSentence = @ \o word.text]
    IN  IF isSentenceEndMarker(word.text)
        THEN [currentSentence |-> << >>, currentStart |-> << >>,
              sentences |-> SentencePush(added)]
        ELSE added

\* after the loop: the remainder is pushed under the same test; return sentences
SentenceEnd(s) == SentencePush(s)

RECURSIVE SentenceFold(_, _)
SentenceFold(s, words) ==
    IF words = << >> THEN s ELSE SentenceFold(SentenceWord(s, Head(words)), Tail(words))

extractSentences(words) == SentenceEnd(SentenceFold(SentenceLocals, words))

(***************************************************************************)
(* extractSentences as a machine: one step per word of the loop.           *)
(***************************************************************************)
SentenceLoop ==
    /\ spc = "loop"
    /\ sPos <= Len(sWords)
    /\ sentencer' = SentenceWord(sentencer, sWords[sPos])
    /\ sPos' = sPos + 1
    /\ UNCHANGED <<spc, sWords, sResult>>
    /\ UNCHANGED <<orchVars, groupVars, adapterVars, formatterVars,
                 mergeVars, mainVars>>

SentenceReturn ==
    /\ spc = "loop"
    /\ sPos > Len(sWords)
    /\ sResult' = SentenceEnd(sentencer)
    /\ spc' = "returned"
    /\ UNCHANGED <<sWords, sPos, sentencer>>
    /\ UNCHANGED <<orchVars, groupVars, adapterVars, formatterVars,
                 mergeVars, mainVars>>

(***************************************************************************)
(* The orchestrator's data.                                                *)
(***************************************************************************)
\* const SEGMENT_LENGTH_MS = 45 * 60 * 1000
SEGMENT_LENGTH_MS == 45 * 60 * 1000

MinuteMs == 60 * 1000

\* the durations of the orchestrator's inputs: for each number of segments k up to
\* MaxChunks, an input that ends 5 minutes into its last segment and one that fills
\* it (50 minutes is the first of these for k = 2); and the empty input
OrchDurations ==
    {0} \cup UNION {{(k - 1) * SEGMENT_LENGTH_MS + 5 * MinuteMs, k * SEGMENT_LENGTH_MS} :
                       k \in 1..MaxChunks}

AudioFilePath == [kind |-> "input", index |-> 0]
OutputPath == [kind |-> "output", index |-> 0]
TempDir == [kind |-> "temp_audio_segments", index |-> 0]

\* path.join(tempDir, `segment_${segmentIndex.toString().padStart(3, "0")}_${timestamp}.mp3`)
SegmentPath(segmentIndex) == [kind |-> "segment", index |-> segmentIndex]

Call(op, path, ok) == [op |-> op, path |-> path, ok |-> ok]

\* what the recognizer may answer: no words; two speakers; words without a speaker,
\* the last one a sentence end
Responses ==
    { [text |-> << >>, words |-> << >>],
      [text |-> <<"Hello", " world", "Hi">>,
       words |-> << Word(<<"Hello">>, 0, "speaker_1"), Word(<<" world">>, 1, "speaker_1"),
                    Word(<<"Hi">>, 2, "speaker_2") >>],
      [text |-> <<"Hi", "U+3002">>,
       words |-> << Word(<<"Hi">>, 0, Undefined), Word(<<"U+3002">>, 1, Undefined) >>] }

OldContent == [kind |-> "old"]

\* createTranscriptionHeader(audioFilePath, { diarize, tagAudioEvents })
createTranscriptionHeader(filePath, dz) ==
    [kind |-> "header", file |-> filePath.kind, diarize |-> dz]

\* a plausible slip: Math.floor for Math.ceil
FloorDiv(a, b) == a \div b

\* Math.ceil(a / b), for a >= 0 and b > 0
CeilDiv(a, b) == IF a % b = 0 THEN a \div b ELSE (a \div b) + 1

(***************************************************************************)
(* The options and transcribeSegment (transcriber.ts, config.ts).  An      *)
(* optional field is << >> when absent and <<v>> when it holds v.          *)
(***************************************************************************)
MaxSpeakers == 2       \* largest numSpeakers option given

Opt(S) == {<< >>} \cup {<<x>> : x \in S}

\* a destructuring default (= d) or options.field ?? d
OrDefault(opt, d) == IF opt = << >> THEN d ELSE opt[1]

\* what a caller may give: any of the three fields absent or present, handed over as
\* it is or through TranscriptionConfig.create, as the cli and the library entry do
OptionInputs ==
    [tagAudioEvents : Opt(BOOLEAN), numSpeakers : Opt(0..MaxSpeakers),
     diarize : Opt(BOOLEAN), config : BOOLEAN]

\* the constructor of TranscriptionConfig: options.field ?? default
TranscriptionConfig(options) ==
    [options EXCEPT !.tagAudioEvents = <<OrDefault(@, TRUE)>>,
                    !.numSpeakers = <<OrDefault(@, 0)>>,
                    !.diarize = <<OrDefault(@, TRUE)>>]

\* const { tagAudioEvents = true, numSpeakers = 2, diarize = true } = options, in
\* transcribeWithScribe and again in transcribeSegment
SegmentOptions(options) ==
    LET given == IF options.config THEN TranscriptionConfig(options) ELSE options IN
    [tagAudioEvents |-> OrDefault(given.tagAudioEvents, TRUE),
     numSpeakers |-> OrDefault(given.numSpeakers, 2),
     diarize |-> OrDefault(given.diarize, TRUE)]

\* the argument of client.speechToText.convert
ConvertRequest(filePath, o) ==
    [file |-> filePath, model_id |-> "scribe_v1",
     num_speakers |-> <<IF o.diarize THEN o.numSpeakers ELSE 1>>,
     diarize |-> o.diarize, tag_audio_events |-> o.tagAudioEvents]

MaxRawWords == 2       \* most words in an answer of the recognizer

StackFrames == "at <frames>"

\* new Error(message), and the errors the libraries hand over: objects of the class
\* Error, with the stack trace the runtime gives them
NewError(message) ==
    [name |-> "Error", message |-> message, stack |-> <<"Error", message, StackFrames>>]

\* what a failed convert call is rejected with
ServiceErrors == {NewError("unauthorized"), NewError("timeout")}

\* a word of the recognizer's answer, each field absent or present; confidence in
\* hundredths
RawWord(text, start, end, confidence, speaker, type) ==
    [text |-> text, start |-> start, end |-> end, confidence |-> confidence,
     speaker_id |-> speaker, type |-> type]

\* no field; every field with a value that counts as true; every field but the speaker
\* with the empty string or zero; and mixtures
RawWords ==
    { RawWord(<< >>, << >>, << >>, << >>, << >>, << >>),
      RawWord(<< <<"Hi">> >>, <<1>>, <<2>>, <<50>>, <<"speaker_1">>, <<"audio_event">>),
      RawWord(<< << >> >>, <<0>>, <<0>>, <<0>>, << >>, <<"">>),
      RawWord(<< <<"Hello">> >>, << >>, << >>, <<100>>, << >>, <<"word">>),
      RawWord(<< <<" world">> >>, <<2>>, <<3>>, <<0>>, <<"speaker_2">>, <<"word">>),
      RawWord(<< >>, <<1>>, <<1>>, << >>, <<"speaker_1">>, <<"audio_event">>) }

RECURSIVE RawWordSeqs(_)
RawWordSeqs(n) ==
    IF n = 0 THEN {<< >>}
    ELSE {Append(ws, w) : ws \in RawWordSeqs(n - 1), w \in RawWords}

\* the answers of the recognizer: text and language_probability absent or present
RawResponses ==
    [text : Opt({<<"Hi">>}), language_probability : Opt({90}),
     words : UNION {RawWordSeqs(n) : n \in 0..MaxRawWords}]

\* field || d: d for an absent field and for one that holds the empty string or zero
\* (empty is the one of the two a field of this type can hold)
OrElse(opt, empty, d) == IF opt = << >> \/ opt[1] = empty THEN d ELSE opt[1]

\* response.words.map((word) => ({ text: word.text || "", ... }))
ToTranscriptionWord(word) ==
    [text |-> OrElse(word.text, << >>, << >>),
     start |-> OrElse(word.start, 0, 0),
     end |-> OrElse(word.end, 0, 0),
     confidence |-> OrElse(word.confidence, 0, 100),
     speaker_id |-> OrDefault(word.speaker_id, Undefined),
     type |-> OrElse(word.type, "", "word")]

RECURSIVE ToTranscriptionWords(_)
ToTranscriptionWords(words) ==
    IF words = << >> THEN << >>
    ELSE <<ToTranscriptionWord(Head(words))>> \o ToTranscriptionWords(Tail(words))

\* const transcription: TranscriptionResult = { text: response.text || "", ... }
ToTranscriptionResult(response) ==
    [text |-> OrElse(response.text, << >>, << >>),
     words |-> ToTranscriptionWords(response.words),
     language |-> "auto",
     language_probability |-> OrElse(response.language_probability, 0, 0)]

\* console.error(text, error): the text, then the error object as the runtime prints
\* it, which is its stack trace
consoleError(text, error) == text \o error.stack

\* transcribeSegment(client, audioFilePath, options): one convert call; its answer is
\* returned as a TranscriptionResult, its failure is logged and thrown on
TranscribeSegment ==
    /\ tpc = "call"
    /\ tRequests' = Append(tRequests, ConvertRequest(AudioFilePath, SegmentOptions(tOptions)))
    /\ \/ \E response \in RawResponses :
             /\ tResponse' = <<[ok |-> TRUE, value |-> response]>>
             /\ tResult' = <<ToTranscriptionResult(response)>>
             /\ tpc' = "returned"
             /\ UNCHANGED <<tThrown, tConsole>>
       \/ \E error \in ServiceErrors :
             /\ tResponse' = <<[ok |-> FALSE, value |-> error]>>
             /\ tConsole' = Append(tConsole,
                                   consoleError(<<"segment", AudioFilePath.kind>>, error))
             /\ tThrown' = <<error>>
             /\ tpc' = "thrown"
             /\ UNCHANGED tResult
    /\ UNCHANGED <<tOptions, debugMode>>
    /\ UNCHANGED <<orchVars, groupVars, sentenceVars, formatterVars,
                 mergeVars, mainVars>>

(***************************************************************************)
(* mergeTranscriptions (transcriber.ts).  It returns null for no results;  *)
(* the operator is used for one result or more.                            *)
(***************************************************************************)
MaxResults == 3        \* longest list given to mergeTranscriptions on its own

\* a plausible slip: the words of a result are put before those merged so far
MergeStepPrepends(m, t) ==
    [text |-> m.text \o (IF Len(m.text) > 0 THEN <<" ">> ELSE << >>) \o t.text,
     words |-> t.words \o m.words]

\* the body of the for loop:
\*   merged.text += (merged.text ? " " : "") + transcription.text;
\*   merged.words = [...merged.words, ...transcription.words]
MergeStep(m, t) ==
    [text |-> m.text \o (IF Len(m.text) > 0 THEN <<" ">> ELSE << >>) \o t.text,
     words |-> m.words \o t.words]

RECURSIVE MergeInto(_, _)
\* the for loop
MergeInto(merged, transcriptions) ==
    IF transcriptions = << >> THEN merged
    ELSE MergeInto(MergeStep(merged, Head(transcriptions)), Tail(transcriptions))

mergeTranscriptions(transcriptions) ==
    IF Len(transcriptions) = 1 THEN transcriptions[1]
    ELSE MergeInto([text |-> << >>, words |-> << >>], transcriptions)

RECURSIVE ResultLists(_)
\* every list of n results, each one of the answers of the recognizer
ResultLists(n) ==
    IF n = 0 THEN {<< >>}
    ELSE {Append(ts, t) : ts \in ResultLists(n - 1), t \in Responses}

(***************************************************************************)
(* mergeTranscriptions as a machine: a step for the tests of the length,   *)
(* one per element of the loop, one for the return.  The value returned is *)
(* << >> for null.                                                         *)
(***************************************************************************)
MergeEnter ==
    /\ mpc = "start"
    /\ IF Len(mTranscriptions) = 0
       THEN mResult' = << >> /\ mpc' = "returned"
       ELSE IF Len(mTranscriptions) = 1
       THEN mResult' = <<mTranscriptions[1]>> /\ mpc' = "returned"
       ELSE mpc' = "loop" /\ UNCHANGED mResult
    /\ UNCHANGED <<mTranscriptions, mPos, mMerged>>
    /\ UNCHANGED <<orchVars, groupVars, sentenceVars, adapterVars, formatterVars, mainVars>>

MergeLoop ==
    /\ mpc = "loop"
    /\ mPos <= Len(mTranscriptions)
    /\ mMerged' = MergeStep(mMerged, mTranscriptions[mPos])
    /\ mPos' = mPos + 1
    /\ UNCHANGED <<mpc, mTranscriptions, mResult>>
    /\ UNCHANGED <<orchVars, groupVars, sentenceVars, adapterVars, formatterVars, mainVars>>

MergeReturn ==
    /\ mpc = "loop"
    /\ mPos > Len(mTranscriptions)
    /\ mResult' = <<mMerged>>
    /\ mpc' = "returned"
    /\ UNCHANGED <<mTranscriptions, mPos, mMerged>>
    /\ UNCHANGED <<orchVars, groupVars, sentenceVars, adapterVars, formatterVars, mainVars>>

(***************************************************************************)
(* processTranscriptionResult (transcriber.ts): the pieces it appends to   *)
(* the output file, in order, one appendToFile call for each.              *)
(***************************************************************************)
\* a plausible slip: the speaker is written whether speakers are asked for or not
JsonWordAlwaysSpeaker(word, dz) ==
    [text |-> word.text, start |-> word.start, speaker_id |-> word.speaker_id]

\* words.map(word => ({ text, start, ..., ...(diarize && word.speaker_id !== undefined
\*                      && { speaker_id: word.speaker_id }) }))
JsonWord(word, dz) ==
    [text |-> word.text, start |-> word.start,
     speaker_id |-> IF dz /\ word.speaker_id # Undefined THEN word.speaker_id
                    ELSE Undefined]

RECURSIVE JsonWords(_, _)
JsonWords(words, dz) ==
    IF words = << >> THEN << >>
    ELSE <<JsonWord(Head(words), dz)>> \o JsonWords(Tail(words), dz)

\* appendToFile(outputFile, JSON.stringify(result, null, 2))
JsonPiece(t, dz) == [kind |-> "json", text |-> t.text, words |-> JsonWords(t.words, dz)]

\* const line = `[${utterance.speaker}] ${utterance.text}\n`
SpeakerLine(utterance) ==
    [kind |-> "line", speaker |-> utterance.speaker, text |-> utterance.text]

RECURSIVE SpeakerLines(_)
\* for (const utterance of conversation) appendToFile(outputFile, line)
SpeakerLines(conversation) ==
    IF conversation = << >> THEN << >>
    ELSE <<SpeakerLine(Head(conversation))>> \o SpeakerLines(Tail(conversation))

RECURSIVE BreakSentences(_)
\* transcription.text.replace(/([U+3002 U+FF01 U+FF1F])/g, "$1\n"): a line break after
\* every ideographic full stop, fullwidth exclamation mark and fullwidth question mark
BreakSentences(text) ==
    IF text = << >> THEN << >>
    ELSE (IF Head(text) \in {"U+3002", "U+FF01", "U+FF1F"} THEN <<Head(text), "\n">> ELSE <<Head(text)>>)
         \o BreakSentences(Tail(text))

PlainPiece(t) == [kind |-> "plain", text |-> BreakSentences(t.text) \o <<"\n">>]

Pieces(t, format, dz) ==
    IF format = "json" THEN << JsonPiece(t, dz) >>
    ELSE IF dz THEN SpeakerLines(groupBySpeaker(t.words))
    ELSE << PlainPiece(t) >>

(***************************************************************************)
(* The output formatter (output-formatter.ts): processTranscriptionResult  *)
(* with timestamps.  A line is the sequence of its tokens, "\n" the last.  *)
(***************************************************************************)
MaxFormatWords == 2    \* longest word sequence given to the output formatter on its own

FormatTexts == {<< >>, <<".">>, <<"H">>, <<" ", "w">>}

RECURSIVE FormatWordSeqs(_)
\* every word sequence of length n; the word at position p starts at second p - 1
FormatWordSeqs(n) ==
    IF n = 0 THEN {<< >>}
    ELSE {Append(ws, Word(t, n - 1, sp)) :
            ws \in FormatWordSeqs(n - 1), t \in FormatTexts,
            sp \in SpeakerIds \cup {Undefined}}

\* the results given: the text of each is the text of its words
FormatInputs ==
    {[text |-> ConcatTexts(ws), words |-> ws] :
        ws \in UNION {FormatWordSeqs(n) : n \in 0..MaxFormatWords}}

ProcessingOptions ==
    [outputFormat : {"text", "json"}, diarize : BOOLEAN, showTimestamp : BOOLEAN]

\* two digits of a number below 100
Pad2(n) == IF n < 10 THEN <<"0", ToString(n)>> ELSE <<ToString(n)>>

\* formatTimestamp(seconds) of utils.ts: HH:MM:SS
formatTimestamp(seconds) ==
    Pad2(seconds \div 3600) \o <<":">> \o Pad2((seconds \div 60) % 60) \o <<":">>
    \o Pad2(seconds % 60)

\* const timeLabel = showTimestamp ? `[${formatTimestamp(start)}] ` : ""
TimeLabel(start, showTimestamp) ==
    IF showTimestamp THEN <<"[">> \o formatTimestamp(start) \o <<"] ">> ELSE << >>

\* a plausible slip: the speaker line is labelled whatever showTimestamp says
formatSpeakerLineAlwaysLabelled(utterance, showTimestamp) ==
    TimeLabel(utterance.start, TRUE) \o <<utterance.speaker, ": ">> \o utterance.text
    \o <<"\n">>

\* return `${timeLabel}${utterance.speaker}: ${utterance.text}\n`
formatSpeakerLine(utterance, showTimestamp) ==
    TimeLabel(utterance.start, showTimestamp) \o <<utterance.speaker, ": ">>
    \o utterance.text \o <<"\n">>

\* return `${timeLabel}${sentence.text}\n`
formatSentenceLine(sentence, showTimestamp) ==
    TimeLabel(sentence.start, showTimestamp) \o sentence.text \o <<"\n">>

RECURSIVE SpeakerBasedLines(_, _)
\* processSpeakerBasedOutput: for (const utterance of conversation) formatSpeakerLine
SpeakerBasedLines(conversation, showTimestamp) ==
    IF conversation = << >> THEN << >>
    ELSE <<formatSpeakerLine(Head(conversation), showTimestamp)>>
         \o SpeakerBasedLines(Tail(conversation), showTimestamp)

RECURSIVE SentenceBasedLines(_, _)
\* processSentenceBasedOutput: for (const sentence of sentences) formatSentenceLine
SentenceBasedLines(sentences, showTimestamp) ==
    IF sentences = << >> THEN << >>
    ELSE <<formatSentenceLine(Head(sentences), showTimestamp)>>
         \o SentenceBasedLines(Tail(sentences), showTimestamp)

\* what processTranscriptionResult appends, in order, one appendToFile call for each
FormatterPieces(t, options) ==
    IF options.outputFormat = "json" THEN << JsonPiece(t, options.diarize) >>
    ELSE IF options.diarize
    THEN SpeakerBasedLines(groupBySpeaker(t.words), options.showTimestamp)
    ELSE SentenceBasedLines(extractSentences(t.words), options.showTimestamp)

\* a plausible slip: the call is not awaited
NotAwaited(inFlightCalls) == TRUE

\* await: the caller goes on only when the call it made has settled
Awaited(inFlightCalls) == inFlightCalls = << >>

(***************************************************************************)
(* The file system calls on the output file.                               *)
(***************************************************************************)
\* a plausible slip: the header is appended to whatever the file holds
writeFileKeepsContent(content, data) == Append(content, data)

\* writeFile(finalOutputFile, data): the file is created or truncated, then written
writeFile(content, data) == <<data>>

\* appendFile(filePath, content) of appendToFile
appendFile(content, data) == Append(content, data)

\* a plausible slip: no line is echoed
ConsoleEchoNothing(console, piece, options) == console

\* console.log(line.trim()) after the append of a line of text; processJsonOutput has
\* no console.log
ConsoleEcho(console, piece, options) ==
    IF options.outputFormat = "json" THEN console ELSE Append(console, Trim(piece))

(***************************************************************************)
(* The output formatter as a machine: a step for the entry, for the begin  *)
(* and for the end of each appendToFile call, and for the return.          *)
(***************************************************************************)
ProcessTranscriptionResult ==
    /\ fpc = "start"
    /\ fPending' = FormatterPieces(fTranscription, fOptions)
    /\ fpc' = "append"
    /\ UNCHANGED <<fTranscription, fOptions, fInFlight, fFile, fConsole>>
    /\ UNCHANGED <<orchVars, groupVars, sentenceVars, adapterVars, mergeVars, mainVars>>

\* await appendToFile(outputFile, line): the call is made
FormatterAppendBegin ==
    /\ fpc = "append"
    /\ fPending # << >>
    /\ Awaited(fInFlight)
    /\ fInFlight' = Append(fInFlight, Head(fPending))
    /\ UNCHANGED <<fpc, fTranscription, fOptions, fPending, fFile, fConsole>>
    /\ UNCHANGED <<orchVars, groupVars, sentenceVars, adapterVars, mergeVars, mainVars>>

\* the call settles: the piece is appended, and in text mode console.log(line.trim());
\* or appendFile throws and so does processTranscriptionResult
FormatterAppendEnd ==
    /\ fpc = "append"
    /\ fInFlight # << >>
    /\ fInFlight' = Tail(fInFlight)
    /\ \E ok \in BOOLEAN :
          IF ok
          THEN /\ fFile' = appendFile(fFile, Head(fInFlight))
               /\ fConsole' = ConsoleEcho(fConsole, Head(fInFlight), fOptions)
               /\ fPending' = Tail(fPending)
               /\ UNCHANGED fpc
          ELSE /\ fpc' = "thrown"
               /\ UNCHANGED <<fFile, fConsole, fPending>>
    /\ UNCHANGED <<fTranscription, fOptions>>
    /\ UNCHANGED <<orchVars, groupVars, sentenceVars, adapterVars, mergeVars, mainVars>>

FormatterReturn ==
    /\ fpc = "append"
    /\ fPending = << >>
    /\ fInFlight = << >>
    /\ fpc' = "returned"
    /\ UNCHANGED <<fTranscription, fOptions, fPending, fInFlight, fFile, fConsole>>
    /\ UNCHANGED <<orchVars, groupVars, sentenceVars, adapterVars, mergeVars, mainVars>>

(***************************************************************************)
(* Where a failure goes.  transcribeWithScribe is one try block (the       *)
(* "outer" region) holding a second one (the "inner" region, from the      *)
(* splitAudio call to the end of the cleanup loop) whose catch block (the  *)
(* "catch" region) processes the input as a single file.                   *)
(***************************************************************************)
\* a plausible slip: the fallback runs outside the outer try
CatchOfFallbackEscapes(region) ==
    IF region = "inner" THEN "fallback"
    ELSE IF region = "catch" THEN "raised"
    ELSE "outer_catch"

\* a plausible slip: no fallback, a failure of the inner region ends the run
CatchOfAbandonsTheRun(region) == "outer_catch"

\* the pc a throw in the region continues at
CatchOf(region) == IF region = "inner" THEN "fallback" ELSE "outer_catch"

\* the region each call of processTranscriptionResult is made in
SiteRegion(site) == IF site = "fallback" THEN "catch" ELSE "inner"

inputVars == <<apiKey, outputFile, outputFormat, diarize, priorFile, totalDurationMs,
               segmentLength>>
splitVars == <<numSegments, requests, segmentPaths, splitOk, segFiles, splitError>>
formatVars == <<transcription, pending, formatLog>>

(***************************************************************************)
(* transcribeWithScribe, up to the header.                                 *)
(***************************************************************************)
\* a plausible slip: the run goes on without a key
CheckApiKeyGoesOn ==
    /\ pc = "start"
    /\ pc' = "resolve_output"
    /\ UNCHANGED <<exitCode, inputVars, file, calls, splitVars, transcriptionResults,
                   formatVars, unlinked, inFlight, notOrch>>

\* const apiKey = process.env.ELEVENLABS_API_KEY; if (!apiKey) { ...; return 1; }
CheckApiKey ==
    /\ pc = "start"
    /\ IF ~apiKey
       THEN pc' = "done" /\ exitCode' = 1
       ELSE pc' = "resolve_output" /\ UNCHANGED exitCode
    /\ UNCHANGED <<inputVars, file, calls, splitVars, transcriptionResults, formatVars,
                   unlinked, inFlight, notOrch>>

\* const finalOutputFile = outputFile || (await generateOutputFilename(options.outputDir));
\* generateOutputFilename makes the output directory, which may fail
ResolveOutput ==
    /\ pc = "resolve_output"
    /\ \/ /\ outputFile = "given"
          /\ pc' = "write_header"
          /\ UNCHANGED calls
       \/ /\ outputFile = "null"
          /\ \E ok \in BOOLEAN :
                /\ calls' = Append(calls, Call("mkdir", OutputPath, ok))
                /\ pc' = IF ok THEN "write_header" ELSE CatchOf("outer")
    /\ UNCHANGED <<exitCode, inputVars, file, splitVars, transcriptionResults, formatVars,
                   unlinked, inFlight, notOrch>>

\* await writeFile(finalOutputFile, createTranscriptionHeader(...), "utf-8");
\* then the client is constructed and the inner try block is entered with splitAudio
WriteHeader ==
    /\ pc = "write_header"
    /\ \E ok \in BOOLEAN :
          /\ calls' = Append(calls, Call("writeFile", OutputPath, ok))
          /\ file' = IF ok
                     THEN writeFile(file, createTranscriptionHeader(AudioFilePath, diarize))
                     ELSE file
          /\ pc' = IF ok THEN "split_mkdir" ELSE CatchOf("outer")
    /\ UNCHANGED <<exitCode, inputVars, splitVars, transcriptionResults, formatVars,
                   unlinked, inFlight, notOrch>>

(***************************************************************************)
(* splitAudio (utils.ts).                                                  *)
(***************************************************************************)
\* setStartTime((segmentIndex * segmentLength) / 1000), setDuration(segmentLength / 1000):
\* the request made to ffmpeg for a segment, here in milliseconds
ExportRequest(segmentIndex, segLen) ==
    [start |-> segmentIndex * segLen, duration |-> segLen]

\* if (!fs.existsSync(tempDir)) fs.mkdirSync(tempDir, { recursive: true })
SplitMkTempDir ==
    /\ pc = "split_mkdir"
    /\ \E ok \in BOOLEAN :
          /\ calls' = Append(calls, Call("mkdirSync", TempDir, ok))
          /\ pc' = IF ok THEN "split_probe" ELSE CatchOf("inner")
          /\ splitError' = IF ok THEN splitError ELSE <<NewError("mkdirSync")>>
    /\ UNCHANGED <<exitCode, inputVars, file, numSegments, requests, segmentPaths, splitOk,
                   segFiles, transcriptionResults, formatVars, unlinked, inFlight, notOrch>>

\* ffmpeg.ffprobe: it fails and its error is thrown on, or reports no numeric duration
\* and a new Error is thrown, or reports the duration;
\* then numSegments = Math.ceil(totalDurationMs / segmentLength)
SplitProbe ==
    /\ pc = "split_probe"
    /\ \E outcome \in {"duration", "error", "no_duration"} :
          /\ calls' = Append(calls, Call("ffprobe", AudioFilePath, outcome = "duration"))
          /\ IF outcome = "duration"
             THEN /\ numSegments' = CeilDiv(totalDurationMs, segmentLength)
                  /\ pc' = "split_export"
                  /\ UNCHANGED splitError
             ELSE /\ pc' = CatchOf("inner")
                  /\ splitError' = <<NewError(IF outcome = "error" THEN "ffprobe"
                                               ELSE "no_duration")>>
                  /\ UNCHANGED numSegments
    /\ UNCHANGED <<exitCode, inputVars, file, requests, segmentPaths, splitOk, segFiles,
                   transcriptionResults, formatVars, unlinked, inFlight, notOrch>>

\* for (let i = 0; i < numSegments; i++) segmentPaths.push(await exportSegment(i)),
\* a failed extraction being thrown on
SplitExport ==
    /\ pc = "split_export"
    /\ Len(segmentPaths) < numSegments
    /\ LET i == Len(segmentPaths) IN
       \E ok \in BOOLEAN :
          /\ requests' = Append(requests, ExportRequest(i, segmentLength))
          /\ calls' = Append(calls, Call("ffmpeg", SegmentPath(i), ok))
          /\ IF ok
             THEN /\ segmentPaths' = Append(segmentPaths, SegmentPath(i))
                  /\ segFiles' = segFiles \cup {i}
                  /\ UNCHANGED <<pc, splitError>>
             ELSE /\ pc' = CatchOf("inner")
                  /\ splitError' = <<NewError("ffmpeg")>>
                  /\ UNCHANGED <<segmentPaths, segFiles>>
    /\ UNCHANGED <<exitCode, inputVars, file, numSegments, splitOk, transcriptionResults,
                   formatVars, unlinked, inFlight, notOrch>>

\* return segmentPaths; then, in transcribeWithScribe, if (segmentPaths.length <= 1)
SplitReturn ==
    /\ pc = "split_export"
    /\ Len(segmentPaths) = numSegments
    /\ splitOk' = TRUE
    /\ pc' = IF Len(segmentPaths) <= 1 THEN "single_recognize" ELSE "multi_recognize"
    /\ UNCHANGED <<exitCode, inputVars, file, calls, numSegments, requests, segmentPaths,
                   segFiles, splitError, transcriptionResults, formatVars, unlinked,
                   inFlight, notOrch>>

(***************************************************************************)
(* transcribeSegment and processTranscriptionResult (transcriber.ts).      *)
(***************************************************************************)
\* the entry of processTranscriptionResult(t, finalOutputFile, { outputFormat, diarize })
BeginFormat(t, site) ==
    /\ transcription' = t
    /\ pending' = Pieces(t, outputFormat, diarize)
    /\ formatLog' = Append(formatLog, [site |-> site, at |-> Len(calls) + 1,
                                       done |-> FALSE])
    /\ pc' = "format"

\* await appendToFile(outputFile, piece): its mkdir of the directory may fail and is only
\* logged; appendFile appends or throws, in the region of the call being served
AppendPiece ==
    /\ pc = "format"
    /\ pending # << >>
    /\ \E ok \in BOOLEAN :
          /\ calls' = Append(calls, Call("appendFile", OutputPath, ok))
          /\ IF ok
             THEN /\ file' = appendFile(file, Head(pending))
                  /\ pending' = Tail(pending)
                  /\ UNCHANGED pc
             ELSE /\ pc' = CatchOf(SiteRegion(formatLog[Len(formatLog)].site))
                  /\ UNCHANGED <<file, pending>>
    /\ UNCHANGED <<exitCode, inputVars, splitVars, transcriptionResults, transcription,
                   formatLog, unlinked, inFlight, notOrch>>

\* a plausible slip: the multi-segment branch returns without its cleanup
FormatReturnSkipsCleanup ==
    /\ pc = "format"
    /\ pending = << >>
    /\ formatLog' = [formatLog EXCEPT ![Len(formatLog)].done = TRUE]
    /\ pc' = "success"
    /\ UNCHANGED <<exitCode, inputVars, file, calls, splitVars, transcriptionResults,
                   transcription, pending, unlinked, inFlight, notOrch>>

\* processTranscriptionResult returns: the single-segment branch and the fallback go on
\* to the final return, the multi-segment branch to its cleanup
FormatReturn ==
    /\ pc = "format"
    /\ pending = << >>
    /\ formatLog' = [formatLog EXCEPT ![Len(formatLog)].done = TRUE]
    /\ pc' = IF formatLog[Len(formatLog)].site = "multi" THEN "cleanup" ELSE "success"
    /\ UNCHANGED <<exitCode, inputVars, file, calls, splitVars, transcriptionResults,
                   transcription, pending, unlinked, inFlight, notOrch>>

\* await transcribeSegment(client, path, ...): the call is made, for the input in the
\* single-segment branch and in the fallback, for the next segment in the loop
RecognizeBegin ==
    /\ pc \in {"single_recognize", "multi_recognize", "fallback"}
    /\ Awaited(inFlight)
    /\ IF pc = "multi_recognize"
       THEN /\ Len(transcriptionResults) + Len(inFlight) < Len(segmentPaths)
            /\ inFlight' = Append(inFlight,
                                  segmentPaths[Len(transcriptionResults) + Len(inFlight) + 1])
       ELSE /\ inFlight = << >>
            /\ inFlight' = <<AudioFilePath>>
    /\ UNCHANGED <<pc, exitCode, inputVars, file, calls, splitVars, transcriptionResults,
                   formatVars, unlinked, notOrch>>

\* segmentPaths.length <= 1: transcribeSegment(client, audioFilePath, ...), then
\* processTranscriptionResult; transcribeSegment logs a failed call and throws it on
SingleRecognize ==
    /\ pc = "single_recognize"
    /\ inFlight # << >>
    /\ inFlight' = Tail(inFlight)
    /\ \/ \E response \in Responses :
             /\ calls' = Append(calls, Call("convert", Head(inFlight), TRUE))
             /\ BeginFormat(response, "single")
       \/ /\ calls' = Append(calls, Call("convert", Head(inFlight), FALSE))
          /\ pc' = CatchOf("inner")
          /\ UNCHANGED formatVars
    /\ UNCHANGED <<exitCode, inputVars, file, splitVars, transcriptionResults, unlinked,
                   notOrch>>

\* for (let i = 0; i < segmentPaths.length; i++)
\*   transcriptionResults.push(await transcribeSegment(client, segmentPaths[i], ...))
MultiRecognize ==
    /\ pc = "multi_recognize"
    /\ inFlight # << >>
    /\ inFlight' = Tail(inFlight)
    /\ LET segmentPath == Head(inFlight) IN
       \/ \E response \in Responses :
             /\ calls' = Append(calls, Call("convert", segmentPath, TRUE))
             /\ transcriptionResults' = Append(transcriptionResults, response)
             /\ UNCHANGED pc
       \/ /\ calls' = Append(calls, Call("convert", segmentPath, FALSE))
          /\ pc' = CatchOf("inner")
          /\ UNCHANGED transcriptionResults
    /\ UNCHANGED <<exitCode, inputVars, file, splitVars, formatVars, unlinked, notOrch>>

\* const mergedTranscription = mergeTranscriptions(transcriptionResults);
\* if (mergedTranscription) processTranscriptionResult(...) else return 1
MultiMerge ==
    /\ pc = "multi_recognize"
    /\ Len(transcriptionResults) = Len(segmentPaths)
    /\ inFlight = << >>
    /\ IF Len(transcriptionResults) = 0
       THEN /\ pc' = "done"
            /\ exitCode' = 1
            /\ UNCHANGED formatVars
       ELSE /\ BeginFormat(mergeTranscriptions(transcriptionResults), "multi")
            /\ UNCHANGED exitCode
    /\ UNCHANGED <<inputVars, file, calls, splitVars, transcriptionResults, unlinked,
                   inFlight, notOrch>>

\* for (const segmentPath of segmentPaths) try { await unlink(segmentPath) } catch { warn }
Cleanup ==
    /\ pc = "cleanup"
    /\ unlinked < Len(segmentPaths)
    /\ LET segmentPath == segmentPaths[unlinked + 1] IN
       \E ok \in BOOLEAN :
          /\ calls' = Append(calls, Call("unlink", segmentPath, ok))
          /\ segFiles' = IF ok THEN segFiles \ {segmentPath.index} ELSE segFiles
    /\ unlinked' = unlinked + 1
    /\ UNCHANGED <<pc, exitCode, inputVars, file, numSegments, requests, segmentPaths,
                   splitOk, splitError, transcriptionResults, formatVars, inFlight, notOrch>>

CleanupDone ==
    /\ pc = "cleanup"
    /\ unlinked = Len(segmentPaths)
    /\ pc' = "success"
    /\ UNCHANGED <<exitCode, inputVars, file, calls, splitVars, transcriptionResults,
                   formatVars, unlinked, inFlight, notOrch>>

\* the catch block of the inner try: whatever was thrown in the inner region, the
\* input is processed as a single file
FallbackRecognize ==
    /\ pc = "fallback"
    /\ inFlight # << >>
    /\ inFlight' = Tail(inFlight)
    /\ \/ \E response \in Responses :
             /\ calls' = Append(calls, Call("convert", Head(inFlight), TRUE))
             /\ BeginFormat(response, "fallback")
       \/ /\ calls' = Append(calls, Call("convert", Head(inFlight), FALSE))
          /\ pc' = CatchOf("catch")
          /\ UNCHANGED formatVars
    /\ UNCHANGED <<exitCode, inputVars, file, splitVars, transcriptionResults, unlinked,
                   notOrch>>

\* console.log(...); return 0;
Success ==
    /\ pc = "success"
    /\ pc' = "done"
    /\ exitCode' = 0
    /\ UNCHANGED <<inputVars, file, calls, splitVars, transcriptionResults, formatVars,
                   unlinked, inFlight, notOrch>>

\* the catch block of the outer try: the error is reported; return 1
OuterCatch ==
    /\ pc = "outer_catch"
    /\ pc' = "done"
    /\ exitCode' = 1
    /\ UNCHANGED <<inputVars, file, calls, splitVars, transcriptionResults, formatVars,
                   unlinked, inFlight, notOrch>>

(***************************************************************************)
(* The entry points: main of cli.ts ("cli"), main of the cli that converts *)
(* video files ("cli_video"), transcribe of index.ts ("index").  An input  *)
(* path is known by where it comes from, whether it is a YouTube URL, and  *)
(* its extension.                                                          *)
(***************************************************************************)
Path(from, url, ext) == [from |-> from, url |-> url, ext |-> ext]

NoArgument == Path("nowhere", "none", "")

\* the inputs given: none, a YouTube URL, a video file, an audio file
InputPaths ==
    {NoArgument, Path("argument", "youtube", ""), Path("argument", "none", ".mp4"),
     Path("argument", "none", ".mp3")}

\* youtubePatterns.some((pattern) => pattern.test(url))
isYoutubeUrl(path) == path.url = "youtube"

\* videoExtensions.includes(path.extname(filePath).toLowerCase())
isVideoFile(path) ==
    path.ext \in {".mp4", ".avi", ".mov", ".mkv", ".wmv", ".flv", ".webm", ".m4v", ".mpg",
                  ".mpeg", ".3gp"}

\* the steps of downloadFromYoutube, each of which may fail: the output directory,
\* yt-dlp --version, yt-dlp --get-title, the download
DownloadSteps == <<"mkdirSync", "yt-dlp --version", "yt-dlp --get-title", "yt-dlp">>

DownloadDir == [kind |-> "download", index |-> 0]
ConvertDir == [kind |-> "conversion", index |-> 0]

RECURSIVE DownloadCalls(_, _)
\* the calls downloadFromYoutube makes when its step failedAt fails (none for 0):
\* the steps up to that one, it the only one that fails
DownloadCalls(k, failedAt) ==
    IF k = 0 THEN << >>
    ELSE DownloadCalls(k - 1, failedAt)
         \o <<Call(DownloadSteps[k], DownloadDir, k # failedAt)>>

\* a plausible slip: the entry point goes on after a failed download
OnDownloadFailureGoesOn(e) == "convert"

\* if (!downloadResult): main throws, transcribe returns 1
OnDownloadFailure(e) == IF e = "index" THEN "return_1" ELSE "catch"

mainFrame == <<exitCode, inputVars, file, splitVars, transcriptionResults, formatVars,
               unlinked, inFlight, groupVars, sentenceVars, adapterVars, formatterVars,
               mergeVars>>

\* const inputPath = program.args[0]; if (!inputPath) throw new ConfigError(...);
\* transcribe of index.ts has no such test
ResolveInput ==
    /\ mainPc = "start"
    /\ mainPc' = IF entry # "index" /\ inputPath = NoArgument THEN "catch" ELSE "acquire"
    /\ UNCHANGED <<entry, inputPath, audioPath, processExit, pc, calls, mainFrame>>

\* if (isYoutubeUrl(inputPath)) { downloadResult = await downloadFromYoutube(inputPath);
\*   if (!downloadResult) ...; audioPath = downloadResult.filePath }
\* downloadFromYoutube catches the failure of any of its steps and returns null
AcquireMedia ==
    /\ mainPc = "acquire"
    /\ IF isYoutubeUrl(inputPath)
       THEN \E failedAt \in 0..Len(DownloadSteps) :
               /\ calls' = calls \o DownloadCalls(IF failedAt = 0 THEN Len(DownloadSteps)
                                                  ELSE failedAt, failedAt)
               /\ IF failedAt = 0
                  THEN /\ audioPath' = Path("download", "none", ".mp3")
                       /\ mainPc' = "convert"
                  ELSE /\ mainPc' = OnDownloadFailure(entry)
                       /\ UNCHANGED audioPath
       ELSE /\ mainPc' = "convert"
            /\ UNCHANGED <<audioPath, calls>>
    /\ UNCHANGED <<entry, inputPath, processExit, pc, mainFrame>>

\* if (isVideoFile(audioPath)) audioPath = await convertVideoToAudio(audioPath), in the
\* cli that converts; convertVideoToAudio makes its directory if it is not there, runs
\* ffmpeg, and throws when either fails
ConvertMedia ==
    /\ mainPc = "convert"
    /\ IF entry = "cli_video" /\ isVideoFile(audioPath)
       THEN \E exists \in BOOLEAN, outcome \in {"ok", "mkdir_fails", "ffmpeg_fails"} :
               /\ exists => outcome # "mkdir_fails"
               /\ calls' = calls
                     \o (IF exists THEN << >>
                         ELSE <<Call("mkdirSync", ConvertDir, outcome # "mkdir_fails")>>)
                     \o (IF outcome = "mkdir_fails" THEN << >>
                         ELSE <<Call("ffmpeg -i", ConvertDir, outcome = "ok")>>)
               /\ IF outcome = "ok"
                  THEN /\ audioPath' = Path("conversion", "none", ".mp3")
                       /\ mainPc' = "transcribe"
                  ELSE /\ mainPc' = "catch"
                       /\ UNCHANGED audioPath
       ELSE /\ mainPc' = "transcribe"
            /\ UNCHANGED <<audioPath, calls>>
    /\ UNCHANGED <<entry, inputPath, processExit, pc, mainFrame>>

\* const config = TranscriptionConfig...; await transcribeWithScribe(audioPath, config):
\* the call is made
CallTranscribeWithScribe ==
    /\ mainPc = "transcribe"
    /\ pc = "idle"
    /\ pc' = "start"
    /\ mainPc' = "awaiting"
    /\ UNCHANGED <<entry, inputPath, audioPath, processExit, calls, mainFrame>>

\* a plausible slip: the entry point ends without awaiting transcribeWithScribe
ExitNotAwaited ==
    /\ mainPc = "awaiting"
    /\ processExit' = 0
    /\ mainPc' = "done"
    /\ UNCHANGED <<entry, inputPath, audioPath, pc, calls, mainFrame>>

\* transcribeWithScribe has returned: process.exit(exitCode), or return of its value
Exit ==
    /\ mainPc = "awaiting"
    /\ pc = "done"
    /\ processExit' = exitCode
    /\ mainPc' = "done"
    /\ UNCHANGED <<entry, inputPath, audioPath, pc, calls, mainFrame>>

\* the catch block: the error is reported; process.exit(1), or return 1; and the
\* return 1 of transcribe after a failed download
ExitOnError ==
    /\ mainPc \in {"catch", "return_1"}
    /\ processExit' = 1
    /\ mainPc' = "done"
    /\ UNCHANGED <<entry, inputPath, audioPath, pc, calls, mainFrame>>

(***************************************************************************)
(* The specifications.                                                     *)
(***************************************************************************)
NoRun ==
    /\ calls = << >>
    /\ numSegments = 0 /\ requests = << >> /\ segmentPaths = << >>
    /\ splitOk = FALSE /\ segFiles = {} /\ splitError = << >>
    /\ transcriptionResults = << >>
    /\ transcription = [text |-> << >>, words |-> << >>]
    /\ pending = << >> /\ formatLog = << >>
    /\ unlinked = 0 /\ inFlight = << >> /\ exitCode = -1

\* transcribeWithScribe not running
OrchIdle ==
    /\ pc = "idle"
    /\ apiKey = TRUE
    /\ outputFile = "given"
    /\ outputFormat = "text"
    /\ diarize = TRUE
    /\ priorFile = << >>
    /\ file = priorFile
    /\ totalDurationMs = 0
    /\ segmentLength = SEGMENT_LENGTH_MS
    /\ NoRun

SentenceIdle ==
    /\ spc = "idle" /\ sWords = << >> /\ sPos = 1
    /\ sentencer = SentenceLocals /\ sResult = << >>

AdapterIdle ==
    /\ tpc = "idle"
    /\ tOptions = [tagAudioEvents |-> << >>, numSpeakers |-> << >>, diarize |-> << >>,
                   config |-> FALSE]
    /\ tRequests = << >> /\ tResponse = << >> /\ tResult = << >>
    /\ tThrown = << >> /\ tConsole = << >> /\ debugMode = FALSE

FormatterIdle ==
    /\ fpc = "idle" /\ fTranscription = [text |-> << >>, words |-> << >>]
    /\ fOptions = [outputFormat |-> "text", diarize |-> TRUE, showTimestamp |-> TRUE]
    /\ fPending = << >> /\ fInFlight = << >> /\ fFile = << >> /\ fConsole = << >>

MergeIdle ==
    /\ mpc = "idle" /\ mTranscriptions = << >> /\ mPos = 1
    /\ mMerged = [text |-> << >>, words |-> << >>] /\ mResult = << >>

MainIdle ==
    /\ entry = "none" /\ mainPc = "idle" /\ inputPath = NoArgument
    /\ audioPath = NoArgument /\ processExit = -1

\* a run of transcribeWithScribe on an input of any of the durations, with any options,
\* with or without a key, the output path holding something or not
Init ==
    /\ pc = "start"
    /\ apiKey \in BOOLEAN
    /\ outputFile \in {"given", "null"}
    /\ outputFormat \in {"text", "json"}
    /\ diarize \in BOOLEAN
    /\ priorFile \in {<< >>, <<OldContent>>}
    /\ file = priorFile
    /\ totalDurationMs \in OrchDurations
    /\ segmentLength = SEGMENT_LENGTH_MS
    /\ NoRun
    /\ GroupIdle
    /\ SentenceIdle /\ AdapterIdle /\ FormatterIdle /\ MergeIdle /\ MainIdle

Next ==
    \/ CheckApiKey
    \/ ResolveOutput
    \/ WriteHeader
    \/ SplitMkTempDir
    \/ SplitProbe
    \/ SplitExport
    \/ SplitReturn
    \/ RecognizeBegin
    \/ SingleRecognize
    \/ MultiRecognize
    \/ MultiMerge
    \/ AppendPiece
    \/ FormatReturn
    \/ Cleanup
    \/ CleanupDone
    \/ FallbackRecognize
    \/ Success
    \/ OuterCatch

Spec == Init /\ [][Next]_vars

\* splitAudio called on its own, with any small duration and segment length
InitSplit ==
    /\ pc = "split_mkdir"
    /\ apiKey = TRUE
    /\ outputFile = "given"
    /\ outputFormat = "text"
    /\ diarize = TRUE
    /\ priorFile = << >>
    /\ file = priorFile
    /\ totalDurationMs \in 1..MaxDuration
    /\ segmentLength \in 1..MaxSegmentLength
    /\ NoRun
    /\ GroupIdle
    /\ SentenceIdle /\ AdapterIdle /\ FormatterIdle /\ MergeIdle /\ MainIdle

NextSplit ==
    \/ SplitMkTempDir
    \/ SplitProbe
    \/ SplitExport
    \/ SplitReturn

SpecSplit == InitSplit /\ [][NextSplit]_vars

\* groupBySpeaker called on its own, with any word sequence of up to MaxWords words
InitGroup ==
    /\ OrchIdle
    /\ gpc = "loop"
    /\ gWords \in WordInputs
    /\ gPos = 1
    /\ grouper = GroupLocals
    /\ gResult = << >>
    /\ SentenceIdle /\ AdapterIdle /\ FormatterIdle /\ MergeIdle /\ MainIdle

NextGroup ==
    \/ GroupLoop
    \/ GroupReturn

SpecGroup == InitGroup /\ [][NextGroup]_vars

\* extractSentences called on its own, with any word sequence of up to MaxSentenceWords
InitSentence ==
    /\ OrchIdle
    /\ GroupIdle
    /\ spc = "loop"
    /\ sWords \in SentenceInputs
    /\ sPos = 1
    /\ sentencer = SentenceLocals
    /\ sResult = << >>
    /\ AdapterIdle /\ FormatterIdle /\ MergeIdle /\ MainIdle

NextSentence ==
    \/ SentenceLoop
    \/ SentenceReturn

SpecSentence == InitSentence /\ [][NextSentence]_vars

\* transcribeSegment called on its own, for any options, with debug mode on or off
InitAdapter ==
    /\ OrchIdle
    /\ GroupIdle /\ SentenceIdle
    /\ tpc = "call"
    /\ tOptions \in OptionInputs
    /\ tRequests = << >> /\ tResponse = << >> /\ tResult = << >>
    /\ tThrown = << >> /\ tConsole = << >>
    /\ debugMode \in BOOLEAN
    /\ FormatterIdle /\ MergeIdle /\ MainIdle

NextAdapter == TranscribeSegment

SpecAdapter == InitAdapter /\ [][NextAdapter]_vars

\* processTranscriptionResult of the output formatter called on its own
InitFormatter ==
    /\ OrchIdle
    /\ GroupIdle /\ SentenceIdle /\ AdapterIdle
    /\ fpc = "start"
    /\ fTranscription \in FormatInputs
    /\ fOptions \in ProcessingOptions
    /\ fPending = << >> /\ fInFlight = << >> /\ fFile = << >> /\ fConsole = << >>
    /\ MergeIdle /\ MainIdle

NextFormatter ==
    \/ ProcessTranscriptionResult
    \/ FormatterAppendBegin
    \/ FormatterAppendEnd
    \/ FormatterReturn

SpecFormatter == InitFormatter /\ [][NextFormatter]_vars

\* a run of an entry point: any entry, any input (transcribe of index.ts is always
\* given one), with or without a key, for either output format and any duration
InitMain ==
    /\ pc = "idle"
    /\ apiKey \in BOOLEAN
    /\ outputFile = "given"
    /\ outputFormat \in {"text", "json"}
    /\ diarize = TRUE
    /\ priorFile = << >>
    /\ file = priorFile
    /\ totalDurationMs \in OrchDurations
    /\ segmentLength = SEGMENT_LENGTH_MS
    /\ NoRun
    /\ GroupIdle /\ SentenceIdle /\ AdapterIdle /\ FormatterIdle /\ MergeIdle
    /\ entry \in {"cli", "cli_video", "index"}
    /\ mainPc = "start"
    /\ inputPath \in InputPaths
    /\ entry = "index" => inputPath # NoArgument
    /\ audioPath = inputPath
    /\ processExit = -1

NextMain ==
    \/ ResolveInput
    \/ AcquireMedia
    \/ ConvertMedia
    \/ CallTranscribeWithScribe
    \/ Next
    \/ Exit
    \/ ExitOnError

SpecMain == InitMain /\ [][NextMain]_vars

\* mergeTranscriptions called on its own, with any list of up to MaxResults results
InitMerge ==
    /\ OrchIdle
    /\ GroupIdle /\ SentenceIdle /\ AdapterIdle /\ FormatterIdle
    /\ mpc = "start"
    /\ mTranscriptions \in UNION {ResultLists(n) : n \in 0..MaxResults}
    /\ mPos = 1
    /\ mMerged = [text |-> << >>, words |-> << >>]
    /\ mResult = << >>
    /\ MainIdle

NextMerge ==
    \/ MergeEnter
    \/ MergeLoop
    \/ MergeReturn

SpecMerge == InitMerge /\ [][NextMerge]_vars

(***************************************************************************)
(* What the claims speak of.                                               *)
(***************************************************************************)
CallIndexes(op) == {k \in 1..Len(calls) : calls[k].op = op}
OkCallIndexes(op) == {k \in CallIndexes(op) : calls[k].ok}
Header == createTranscriptionHeader(AudioFilePath, diarize)
Body(t) == Pieces(t, outputFormat, diarize)

RECURSIVE Bodies(_)
\* the bodies of a sequence of results, one after the other
Bodies(ts) == IF ts = << >> THEN << >> ELSE Body(Head(ts)) \o Bodies(Tail(ts))

LastFormat == formatLog[Len(formatLog)]

\* C1: once the recognition call for a segment has failed, no further recognition call
\* is made (for a later segment or for any other file), and the run returns 1.
C1_FailedChunkAbortsTheRun ==
    \A k \in CallIndexes("convert") :
        (calls[k].path.kind = "segment" /\ ~calls[k].ok)
            => /\ \A j \in CallIndexes("convert") : j <= k
               /\ pc = "done" => exitCode = 1

\* the places of transcribeWithScribe from which the run goes on, each with the loop
\* condition that decides which step is next
Running ==
    /\ pc \in {"start", "resolve_output", "write_header", "split_mkdir", "split_probe",
               "split_export", "single_recognize", "multi_recognize", "format",
               "cleanup", "fallback", "success", "outer_catch"}
    /\ pc = "split_export" => Len(segmentPaths) <= numSegments
    /\ pc = "multi_recognize" => Len(transcriptionResults) <= Len(segmentPaths)
    /\ pc = "cleanup" => unlinked <= Len(segmentPaths)
    /\ pc = "format" => formatLog # << >>

\* C2: a run never raises to its caller: whichever calls failed, it is either still
\* running, with nothing returned, or has ended with exit code 0 or 1; and it returns 0
\* only if the last call of processTranscriptionResult returned, every append of that
\* call succeeded, and the output file ends with the pieces of the result it was given.
C2_EndsWithZeroOrOne ==
    /\ pc # "raised"
    /\ pc # "done" => (exitCode = -1 /\ Running)
    /\ pc = "done" => exitCode \in {0, 1}
    /\ exitCode = 0 =>
          /\ formatLog # << >>
          /\ LastFormat.done
          /\ LET appends == {k \in CallIndexes("appendFile") : k >= LastFormat.at}
                 n == Len(Body(transcription))
             IN /\ \A k \in appends : calls[k].ok
                /\ Cardinality(appends) = n
                /\ Len(file) >= n
                /\ SubSeq(file, Len(file) - n + 1, Len(file)) = Body(transcription)

\* C2's case: a run that returned 0 although an append failed on its way
C2_Witness ==
    /\ pc = "done" /\ exitCode = 0
    /\ \E k \in CallIndexes("appendFile") : ~calls[k].ok

\* C3: without the credential the run returns 1 and has made no call at all: the output
\* file is as it was, nothing was probed or extracted, nothing was recognized.
C3_NoKeyNoEffect ==
    ~apiKey =>
        /\ pc \in {"start", "done"}
        /\ pc = "done" => exitCode = 1
        /\ calls = << >>
        /\ file = priorFile
        /\ requests = << >> /\ segFiles = {} /\ ~splitOk
        /\ formatLog = << >>

\* C3's case: a run without the credential has ended, the output path holding old content
C3_Witness == ~apiKey /\ pc = "done" /\ priorFile = <<OldContent>>

Min(a, b) == IF a <= b THEN a ELSE b

\* C5 as amended: splitAudio returns n segments, n the least number with n * L >= D, in
\* index order; segment i is requested from offset i * L with duration L, the last one
\* too, so that the last request covers the D - (n - 1) * L that remain and more.
C5_SegmentsCoverTheInput ==
    /\ \A i \in 1..Len(requests) :
          requests[i] = [start |-> (i - 1) * segmentLength, duration |-> segmentLength]
    /\ \A i \in 1..Len(segmentPaths) : segmentPaths[i] = SegmentPath(i - 1)
    /\ splitOk =>
          LET n == Len(segmentPaths) IN
          /\ (n - 1) * segmentLength < totalDurationMs
          /\ totalDurationMs <= n * segmentLength
          /\ Len(requests) = n
          /\ requests[n].duration >= totalDurationMs - (n - 1) * segmentLength

\* C5's case: an input split into several segments, the last one shorter than the others
C5_Witness ==
    /\ splitOk
    /\ Len(segmentPaths) >= 3
    /\ totalDurationMs % segmentLength # 0

\* C5 as claimed: ceil(D / L) segments, and segment i is requested from offset i * L
\* with duration min(L, D - i * L).
C5_RequestedDurationIsWhatRemains ==
    splitOk =>
        /\ Len(segmentPaths) * segmentLength >= totalDurationMs
        /\ (Len(segmentPaths) - 1) * segmentLength < totalDurationMs
        /\ \A i \in 0..(Len(requests) - 1) :
              /\ requests[i + 1].start = i * segmentLength
              /\ requests[i + 1].duration
                    = Min(segmentLength, totalDurationMs - i * segmentLength)

\* C6: when splitAudio returns a single segment, the run makes exactly one recognition
\* call, on the input file, formats its result exactly once, and a run that returns 0
\* leaves the header followed by the body of that one result.
C6_SingleSegmentOneCall ==
    (pc = "done" /\ splitOk /\ Len(segmentPaths) = 1) =>
        /\ Cardinality(CallIndexes("convert")) = 1
        /\ \A k \in CallIndexes("convert") : calls[k].path = AudioFilePath
        /\ Len(formatLog) = 1
        /\ exitCode = 0 => file = <<Header>> \o Body(transcription)

\* C7: when splitAudio returns several segments and every recognition call succeeds, a
\* run that returns 0 leaves the header followed by one body per segment in order, or by
\* the one body of the merged result; a merged body is appended after the last
\* recognition call.
C7_OneHeaderThenTheBodies ==
    (pc = "done" /\ exitCode = 0 /\ splitOk /\ Len(segmentPaths) >= 2
        /\ \A k \in CallIndexes("convert") : calls[k].ok) =>
        /\ Len(transcriptionResults) = Len(segmentPaths)
        /\ \/ file = <<Header>> \o Bodies(transcriptionResults)
           \/ /\ file = <<Header>> \o Body(mergeTranscriptions(transcriptionResults))
              /\ \A a \in CallIndexes("appendFile") :
                    \A c \in CallIndexes("convert") : c < a

(***************************************************************************)
(* The maximal runs of same-speaker words, written down directly.          *)
(***************************************************************************)
RunStarts(ws) ==
    {i \in 1..Len(ws) : i = 1 \/ SpeakerIdOf(ws[i]) # SpeakerIdOf(ws[i - 1])}

RunEnd(ws, i) ==
    CHOOSE j \in i..Len(ws) :
        /\ \A m \in i..j : SpeakerIdOf(ws[m]) = SpeakerIdOf(ws[i])
        /\ j = Len(ws) \/ SpeakerIdOf(ws[j + 1]) # SpeakerIdOf(ws[i])

NthRunStart(ws, k) ==
    CHOOSE i \in RunStarts(ws) : Cardinality({j \in RunStarts(ws) : j < i}) = k - 1

Runs(ws) ==
    [k \in 1..Cardinality(RunStarts(ws)) |->
        LET i == NthRunStart(ws, k) IN
        [speaker |-> SpeakerIdOf(ws[i]),
         text |-> ConcatTexts(SubSeq(ws, i, RunEnd(ws, i))),
         start |-> ws[i].start]]

NoSpeakerChange(ws) == \A i, j \in 1..Len(ws) : ws[i].speaker_id = ws[j].speaker_id

\* C8: the texts of the utterances groupBySpeaker returns, concatenated in order, are
\* the texts of the words concatenated in order.
C8_GroupingKeepsTheText ==
    /\ gpc = "returned" => ConcatTexts(gResult) = ConcatTexts(gWords)
    /\ gpc = "loop" =>
          ConcatTexts(grouper.conversation) \o grouper.currentText
              = ConcatTexts(SubSeq(gWords, 1, gPos - 1))

\* C8's case: several utterances returned for words some of which have no text
C8_Witness ==
    /\ gpc = "returned"
    /\ Len(gResult) >= 2
    /\ \E i \in 1..Len(gWords) : gWords[i].text = << >>

\* C9 as amended: for words without a speaker change groupBySpeaker returns one utterance
\* when the words have any text, and none when they have none (no word, or empty texts).
C9_OneUtteranceIfAnyText ==
    (gpc = "returned" /\ NoSpeakerChange(gWords)) =>
        Len(gResult) = IF ConcatTexts(gWords) # << >> THEN 1 ELSE 0

\* C9's case: several words of one speaker, grouped into one utterance
C9_Witness ==
    /\ gpc = "returned"
    /\ Len(gWords) >= 2
    /\ NoSpeakerChange(gWords)
    /\ Len(gResult) = 1

\* C9 as claimed: for one or more words without a speaker change groupBySpeaker returns
\* exactly one utterance.
C9_ExactlyOneUtterance ==
    (gpc = "returned" /\ Len(gWords) >= 1 /\ NoSpeakerChange(gWords)) => Len(gResult) = 1

\* C10 as amended: the utterances are the maximal runs of same-speaker words in order,
\* each with the run's speaker (unknown_speaker for none), the start of its first word
\* and its concatenated text, except that a last run without text is left out; adjacent
\* utterances differ in speaker.
C10_UtterancesAreTheRunsButAnEmptyLast ==
    gpc = "returned" =>
        LET runs == Runs(gWords)
            n == Len(runs)
        IN /\ gResult = IF n > 0 /\ runs[n].text = << >> THEN SubSeq(runs, 1, n - 1)
                        ELSE runs
           /\ \A k \in 1..(Len(gResult) - 1) : gResult[k].speaker # gResult[k + 1].speaker

\* C10's case: the example of the claim
C10_Witness ==
    /\ gpc = "returned"
    /\ gWords = << Word(<<"Hello">>, 0, "speaker_1"), Word(<<" world">>, 1, "speaker_1"),
                   Word(<<"Hi">>, 2, "speaker_2") >>
    /\ gResult = << [speaker |-> "speaker_1", text |-> <<"Hello", " world">>, start |-> 0],
                    [speaker |-> "speaker_2", text |-> <<"Hi">>, start |-> 2] >>

\* C10 as claimed: the utterances are exactly the maximal runs of same-speaker words.
C10_UtterancesAreTheRuns ==
    gpc = "returned" => gResult = Runs(gWords)

(***************************************************************************)
(* extractSentences: what the claims speak of.                            *)
(***************************************************************************)
\* the terminal characters the claims name: the ideographic full stop, the fullwidth
\* exclamation and question marks, and their ASCII counterparts
TerminalCharacters == {"U+3002", "U+FF01", "U+FF1F", ".", "!", "?"}

\* the positions of the words whose whole text is one terminal character
Terminals(words) ==
    {i \in 1..Len(words) : words[i].text \in {<<c>> : c \in TerminalCharacters}}

\* the positions a stretch of words ends at: every terminal word, and the last word
StretchEnds(words) ==
    Terminals(words) \cup (IF Len(words) > 0 THEN {Len(words)} ELSE {})

\* the first position of the stretch that ends at e: the one after the previous terminal
StretchStart(words, e) ==
    CHOOSE j \in 1..e : /\ \A k \in j..(e - 1) : k \notin Terminals(words)
                        /\ (j = 1 \/ (j - 1) \in Terminals(words))

\* the sentence of the stretch that ends at e, as the claim has it
StretchSentence(words, e) ==
    [text |-> Trim(ConcatTexts(SubSeq(words, StretchStart(words, e), e))),
     start |-> words[StretchStart(words, e)].start]

RECURSIVE StretchSentences(_, _)
\* the sentences of the stretches that end at or before e, those without text left out
StretchSentences(words, e) ==
    IF e = 0 THEN << >>
    ELSE StretchSentences(words, e - 1)
         \o (IF e \in StretchEnds(words) /\ StretchSentence(words, e).text # << >>
             THEN <<StretchSentence(words, e)>>
             ELSE << >>)

\* C11: no sentence emitted by extractSentences, while it runs or when it returns, has a
\* text that is empty after trimming.
C11_NoEmptySentence ==
    /\ \A k \in 1..Len(sentencer.sentences) : Trim(sentencer.sentences[k].text) # << >>
    /\ \A k \in 1..Len(sResult) : Trim(sResult[k].text) # << >>

\* C11's case: a blank before a full stop gives a sentence, the blanks after it none
C11_Witness ==
    /\ spc = "returned"
    /\ Len(sWords) = 4
    /\ sWords[1].text = <<" ">> /\ sWords[2].text = <<".">>
    /\ sWords[3].text = <<" ">> /\ sWords[4].text = <<" ">>
    /\ sResult = << [text |-> <<".">>, start |-> 0] >>

\* the first word of the stretch that ends at e whose text is not empty
FirstWithText(words, e) ==
    CHOOSE j \in StretchStart(words, e)..e :
        /\ words[j].text # << >>
        /\ \A k \in StretchStart(words, e)..(j - 1) : words[k].text = << >>

RECURSIVE OpenedSentences(_, _)
\* the sentences of the stretches that end at or before e, each with the start of the
\* first word of its stretch whose text is not empty
OpenedSentences(words, e) ==
    IF e = 0 THEN << >>
    ELSE OpenedSentences(words, e - 1)
         \o (IF e \in StretchEnds(words) /\ StretchSentence(words, e).text # << >>
             THEN <<[text |-> StretchSentence(words, e).text,
                     start |-> words[FirstWithText(words, e)].start]>>
             ELSE << >>)

\* C12 as amended: extractSentences closes a sentence at each word whose whole text is a
\* terminal character and at the end of the input; the text of a sentence is the trimmed
\* concatenation of the word texts since the previous close, its start is the start of
\* the first of those words whose text is not empty, and a stretch whose trimmed text is
\* empty gives no sentence.
C12_SentencesOpenAtTheFirstText ==
    spc = "returned" => sResult = OpenedSentences(sWords, Len(sWords))

\* C12's case: the example of the claim, Hello, " world", ".", Bye written H, " w", ".", B
C12_Witness ==
    /\ spc = "returned"
    /\ sWords = << Word(<<"H">>, 0, Undefined), Word(<<" ", "w">>, 1, Undefined),
                   Word(<<".">>, 2, Undefined), Word(<<"B">>, 3, Undefined) >>
    /\ sResult = << [text |-> <<"H", " ", "w", ".">>, start |-> 0],
                    [text |-> <<"B">>, start |-> 3] >>

\* C12 as claimed: the sentences extractSentences returns are those of the stretches of
\* words that end at each terminal word and at the end of the input, in order: the text
\* of each is the trimmed concatenation of the stretch's word texts, its start the start
\* of the first word of the stretch, and a stretch without text gives no sentence.
C12_SentencesAreTheStretches ==
    spc = "returned" => sResult = StretchSentences(sWords, Len(sWords))

(***************************************************************************)
(* transcribeSegment: what the claims speak of.                           *)
(***************************************************************************)
\* diarization is enabled unless the caller disables it
DiarizeEnabled == OrDefault(tOptions.diarize, TRUE)

\* the speaker count the caller configured, 0 for none
ConfiguredSpeakers == OrDefault(tOptions.numSpeakers, 0)

\* C13 as claimed: a request carries a speaker count only when diarization is enabled
\* and the configured count is greater than zero, and then the configured count; with
\* diarization disabled or a count of zero or none, it carries no speaker count.
C13_SpeakerCountOnlyWhenAsked ==
    \A k \in 1..Len(tRequests) :
        tRequests[k].num_speakers =
            IF DiarizeEnabled /\ ConfiguredSpeakers > 0 THEN <<ConfiguredSpeakers>> ELSE << >>

(***************************************************************************)
(* The output formatter: what the claims speak of.                        *)
(***************************************************************************)
\* the units text mode groups the words into: utterances when diarized, else sentences
FormatterUnits ==
    IF fOptions.diarize THEN groupBySpeaker(fTranscription.words)
    ELSE extractSentences(fTranscription.words)

\* the line of a unit as the claim has it: the timestamp prefix if timestamps are
\* enabled, the speaker label if diarized, the text, the end of the line
UnitLine(unit) ==
    (IF fOptions.showTimestamp THEN <<"[">> \o formatTimestamp(unit.start) \o <<"] ">>
     ELSE << >>)
    \o (IF fOptions.diarize THEN <<unit.speaker, ": ">> ELSE << >>)
    \o unit.text \o <<"\n">>

\* C14: in JSON mode the formatter appends exactly one object per invocation; its text
\* is the result's text, its word list has one entry per word of the result in the same
\* order, and an entry has a speaker id exactly when diarization is enabled and the word
\* carries one.
C14_OneJsonObject ==
    fOptions.outputFormat = "json" =>
        /\ Len(fFile) <= 1
        /\ fpc = "returned" => Len(fFile) = 1
        /\ \A k \in 1..Len(fFile) :
              LET words == fTranscription.words IN
              /\ fFile[k].text = fTranscription.text
              /\ Len(fFile[k].words) = Len(words)
              /\ \A i \in 1..Len(words) :
                    /\ fFile[k].words[i].text = words[i].text
                    /\ fFile[k].words[i].start = words[i].start
                    /\ fFile[k].words[i].speaker_id # Undefined
                          <=> (fOptions.diarize /\ words[i].speaker_id # Undefined)
                    /\ fFile[k].words[i].speaker_id # Undefined
                          => fFile[k].words[i].speaker_id = words[i].speaker_id

\* C14's case: without diarization the speaker of a word is left out of its entry
C14_Witness ==
    /\ fpc = "returned"
    /\ fOptions.outputFormat = "json" /\ ~fOptions.diarize
    /\ Len(fTranscription.words) = 2
    /\ fTranscription.words[1].speaker_id = "speaker_1"
    /\ Len(fFile) = 1
    /\ fFile[1].words[1].speaker_id = Undefined

\* C15: in text mode the formatter appends one line per unit, in the order of the units,
\* no append beginning before the one before it has settled; a line has the timestamp
\* prefix exactly when timestamps are enabled and the speaker label exactly when
\* diarized; when the formatter returns every unit has its line.
C15_OneLinePerUnit ==
    fOptions.outputFormat = "text" =>
        /\ Len(fInFlight) <= 1
        /\ Len(fFile) + Len(fInFlight) <= Len(FormatterUnits)
        /\ \A k \in 1..Len(fFile) : fFile[k] = UnitLine(FormatterUnits[k])
        /\ fInFlight # << >> => fInFlight[1] = UnitLine(FormatterUnits[Len(fFile) + 1])
        /\ fpc = "returned" => Len(fFile) = Len(FormatterUnits)

\* C15's case: two utterances written without timestamps
C15_Witness ==
    /\ fpc = "returned"
    /\ fOptions.outputFormat = "text" /\ fOptions.diarize /\ ~fOptions.showTimestamp
    /\ fFile = << <<"speaker_1", ": ", "H", "\n">>, <<"speaker_2", ": ", " ", "w", "\n">> >>

(***************************************************************************)
(* The entry points: what the claims speak of.                            *)
(***************************************************************************)
\* the calls made by downloadFromYoutube
DownloadCallIndexes == {k \in 1..Len(calls) : calls[k].path = DownloadDir}

\* downloadFromYoutube gave its failure signal: one of its steps failed
DownloadFailed == \E k \in DownloadCallIndexes : ~calls[k].ok

\* C16: when the input is a YouTube URL and the download returns its failure signal,
\* the run ends with exit code 1 and transcribeWithScribe is never invoked; when the
\* input is not such a URL the download is never invoked.
C16_FailedAcquisitionEndsTheRun ==
    /\ (isYoutubeUrl(inputPath) /\ DownloadFailed) =>
          /\ pc = "idle"
          /\ mainPc \in {"catch", "return_1", "done"}
          /\ mainPc = "done" => processExit = 1
          /\ \A k \in 1..Len(calls) : k \in DownloadCallIndexes
    /\ ~isYoutubeUrl(inputPath) => DownloadCallIndexes = {}

\* C16's case: the library entry has ended after a download whose last step failed
C16_Witness ==
    /\ entry = "index"
    /\ isYoutubeUrl(inputPath)
    /\ Len(calls) = Len(DownloadSteps) /\ ~calls[Len(calls)].ok
    /\ mainPc = "done"
    /\ processExit = 1

(***************************************************************************)
(* The recognition of the segments: what the claims speak of.             *)
(***************************************************************************)
IsSegmentConvert(call) == call.op = "convert" /\ call.path.kind = "segment"

\* the settled recognition calls made on segment files, in order
SegmentConverts == SelectSeq(calls, IsSegmentConvert)

\* C17: the segments are recognized one at a time in ascending index order: at most one
\* recognition call is in flight, the call for a segment begins only when the calls for
\* all segments before it have returned, and a run with two or more segments in which
\* every recognition call succeeds has recognized every segment exactly once.
C17_OneSegmentAtATimeInOrder ==
    /\ Len(inFlight) <= 1
    /\ \A k \in 1..Len(SegmentConverts) :
          /\ SegmentConverts[k].path = SegmentPath(k - 1)
          /\ k < Len(SegmentConverts) => SegmentConverts[k].ok
    /\ \A k \in 1..Len(inFlight) :
          inFlight[k].kind = "segment" =>
              /\ inFlight[k] = SegmentPath(Len(SegmentConverts))
              /\ \A j \in 1..Len(SegmentConverts) : SegmentConverts[j].ok
    /\ (pc = "done" /\ splitOk /\ Len(segmentPaths) >= 2
           /\ \A k \in CallIndexes("convert") : calls[k].ok) =>
          /\ Len(SegmentConverts) = Len(segmentPaths)
          /\ \A i \in 1..Len(segmentPaths) : SegmentConverts[i].path = segmentPaths[i]

\* C17's case: a run of two segments, both recognized, has ended
C17_Witness ==
    /\ pc = "done" /\ exitCode = 0
    /\ Len(segmentPaths) = 2
    /\ Len(SegmentConverts) = 2
    /\ \A k \in 1..Len(calls) : calls[k].ok

(***************************************************************************)
(* The stages of a run: what the claims speak of.                         *)
(***************************************************************************)
\* the stage a call belongs to: 1 the download, 2 the conversion of a video, 3 the
\* output file and its header, 4 the segmentation, 5 recognition, formatting, cleanup
StageOf(call) ==
    IF call.path = DownloadDir THEN 1
    ELSE IF call.path = ConvertDir THEN 2
    ELSE IF call.op \in {"mkdir", "writeFile"} THEN 3
    ELSE IF call.op \in {"mkdirSync", "ffprobe", "ffmpeg"} THEN 4
    ELSE 5

\* the last recognition call settled before call j, 0 for none
LastConvertBefore(j) ==
    IF \E k \in 1..(j - 1) : calls[k].op = "convert"
    THEN CHOOSE k \in 1..(j - 1) :
            /\ calls[k].op = "convert"
            /\ \A i \in (k + 1)..(j - 1) : calls[i].op # "convert"
    ELSE 0

StagesInOrder ==
    /\ \A i, j \in 1..Len(calls) : i < j => StageOf(calls[i]) <= StageOf(calls[j])
    /\ DownloadCallIndexes # {} => isYoutubeUrl(inputPath)
    /\ (\E k \in 1..Len(calls) : calls[k].path = ConvertDir) => isVideoFile(inputPath)
    /\ inFlight # << >> =>
          /\ pc \in {"single_recognize", "multi_recognize", "fallback"}
          /\ splitOk \/ \E k \in 1..Len(calls) : StageOf(calls[k]) = 4 /\ ~calls[k].ok
    /\ pc = "format" => inFlight = << >>
    /\ \A j \in CallIndexes("appendFile") :
          LastConvertBefore(j) # 0 /\ calls[LastConvertBefore(j)].ok
    /\ mainPc = "done" =>
          /\ processExit \in {0, 1}
          /\ pc \in {"idle", "done"}
          /\ inFlight = << >>

\* C18: the stages of a run occur only in the order input, download (for a YouTube URL
\* only), conversion (for a video file only), segmentation, recognition and formatting,
\* end: no recognition call begins before the segmentation attempt has finished, nothing
\* is formatted before the recognition call that gave it has returned, and no step is
\* taken once the run has ended.
C18_StagesInOrder == [] StagesInOrder /\ [][mainPc # "done"]_vars

\* C18's case: a video file was converted, split into two segments, recognized and
\* written, and the run has ended with 0
C18_Witness ==
    /\ entry = "cli_video" /\ isVideoFile(inputPath)
    /\ audioPath.from = "conversion"
    /\ Len(segmentPaths) = 2 /\ Len(SegmentConverts) = 2
    /\ mainPc = "done" /\ processExit = 0

(***************************************************************************)
(* The segment files: what the claims speak of.                           *)
(***************************************************************************)
\* the indexes of the segment files splitAudio has created
Created == {calls[k].path.index : k \in OkCallIndexes("ffmpeg")}

ConvertsOf(i) == {k \in CallIndexes("convert") : calls[k].path = SegmentPath(i)}

UnlinksOf(i) == {k \in CallIndexes("unlink") : calls[k].path = SegmentPath(i)}

\* the run has come through the cleanup loop of the multi-segment branch
CleanedUp ==
    /\ pc \in {"success", "done"}
    /\ formatLog # << >> /\ LastFormat.site = "multi" /\ LastFormat.done

\* C19 as amended: a segment file is passed to the recognition adapter at most once, and
\* not at all when it is the only segment or the split failed; in a finished run of two
\* or more segments with no failed recognition call each is passed exactly once.  A
\* segment file is deleted only by the cleanup loop, after every append of the run: a run
\* that came through the loop has attempted the deletion of each segment file once, and
\* the files on disk are those created whose deletion did not succeed.
C19_SegmentFilesRecognizedThenDeleted ==
    /\ \A i \in Created :
          /\ Cardinality(ConvertsOf(i)) <= 1
          /\ (~splitOk \/ Len(segmentPaths) <= 1) => ConvertsOf(i) = {}
          /\ Cardinality(UnlinksOf(i)) <= 1
          /\ i \in segFiles <=> ~ \E k \in UnlinksOf(i) : calls[k].ok
          /\ CleanedUp => Cardinality(UnlinksOf(i)) = 1
          /\ (pc = "done" /\ splitOk /\ Len(segmentPaths) >= 2
                 /\ \A k \in CallIndexes("convert") : calls[k].ok) =>
                Cardinality(ConvertsOf(i)) = 1
    /\ segFiles \subseteq Created
    /\ \A k \in CallIndexes("unlink") :
          /\ calls[k].path.index \in Created
          /\ \A j \in CallIndexes("appendFile") : j < k
          /\ formatLog # << >> /\ LastFormat.site = "multi" /\ LastFormat.done

\* C19's case: a run of two segments has ended with 0, the first segment file deleted,
\* the second still on disk because its deletion failed
C19_Witness ==
    /\ pc = "done" /\ exitCode = 0
    /\ Created = {0, 1}
    /\ segFiles = {1}
    /\ Cardinality(ConvertsOf(0)) = 1 /\ Cardinality(ConvertsOf(1)) = 1

\* C19 as claimed: when the run has ended every segment file created has been passed to
\* the recognition adapter exactly once and is still on disk, and no deletion of a
\* segment file was attempted.
C19_SegmentFilesRecognizedAndKept ==
    pc = "done" =>
        /\ \A i \in Created : Cardinality(ConvertsOf(i)) = 1 /\ i \in segFiles
        /\ CallIndexes("unlink") = {}

(***************************************************************************)
(* mergeTranscriptions: what the claims speak of.                         *)
(***************************************************************************)
RECURSIVE ConcatWords(_)
\* the words of a list of results, one result after the other
ConcatWords(ts) == IF ts = << >> THEN << >> ELSE Head(ts).words \o ConcatWords(Tail(ts))

RECURSIVE JoinTexts(_)
\* the texts of a list of results joined with a single space
JoinTexts(ts) ==
    IF ts = << >> THEN << >>
    ELSE IF Len(ts) = 1 THEN ts[1].text
    ELSE Head(ts).text \o <<" ">> \o JoinTexts(Tail(ts))

RECURSIVE DropEmptyTexts(_)
\* a list of results without the results of empty text it begins with
DropEmptyTexts(ts) ==
    IF ts # << >> /\ Len(ts) > 1 /\ Head(ts).text = << >> THEN DropEmptyTexts(Tail(ts))
    ELSE ts

\* C20 as amended: for a non-empty list mergeTranscriptions returns a result whose words
\* are the concatenation of the results' words in order and whose text is the results'
\* texts in order joined with a single space, the results of empty text the list begins
\* with being left out of the join; the list it was given is never written to.
C20_MergeConcatenatesButLeadingEmpties ==
    /\ [] ((mpc = "returned" /\ Len(mTranscriptions) >= 1) =>
              /\ Len(mResult) = 1
              /\ mResult[1].words = ConcatWords(mTranscriptions)
              /\ mResult[1].text = JoinTexts(DropEmptyTexts(mTranscriptions)))
    /\ [][mTranscriptions' = mTranscriptions]_vars

\* C20's case: three results, the first without text, merged
C20_Witness ==
    /\ mpc = "returned"
    /\ Len(mTranscriptions) = 3
    /\ mTranscriptions[1].text = << >> /\ mTranscriptions[2].text = <<"Hi", "U+3002">>
    /\ mTranscriptions[3].text = <<"Hello", " world", "Hi">>
    /\ mResult[1].text = <<"Hi", "U+3002", " ", "Hello", " world", "Hi">>
    /\ Len(mResult[1].words) = 5

\* C20 as claimed: the words are the concatenation of the results' words in order and
\* the text is the results' texts in order joined with a separator.
C20_MergeJoinsTheTexts ==
    (mpc = "returned" /\ Len(mTranscriptions) >= 1) =>
        /\ mResult[1].words = ConcatWords(mTranscriptions)
        /\ mResult[1].text = JoinTexts(mTranscriptions)

(***************************************************************************)
(* The failures of splitAudio.                                             *)
(***************************************************************************)
ProbeFailed == \E k \in CallIndexes("ffprobe") : ~calls[k].ok

\* C21: splitAudio probes the duration before it extracts any chunk; when the probe
\* fails or reports no numeric duration, splitAudio fails with a MediaProbeError, an
\* error of another class than a failed extraction's, and no chunk has been extracted.
C21_ProbeFirstAndItsOwnError ==
    /\ \A k \in CallIndexes("ffmpeg") :
          \E j \in 1..(k - 1) : calls[j].op = "ffprobe" /\ calls[j].ok
    /\ ProbeFailed =>
          /\ splitError # << >>
          /\ splitError[1].name = "MediaProbeError"
          /\ CallIndexes("ffmpeg") = {} /\ requests = << >> /\ segFiles = {}

SplitFailed == splitError # << >>

\* C22: when splitAudio fails, the run makes exactly one recognition call, on the input
\* file, after the failure; its result is formatted once, after the header; and the run
\* returns 0 exactly when that call and every append of its result succeeded.
C22_FailedSplitFallsBackOnce ==
    SplitFailed =>
        LET converts == CallIndexes("convert") IN
        /\ ~splitOk
        /\ transcriptionResults = << >>
        /\ Cardinality(converts) <= 1
        /\ \A k \in converts :
              /\ calls[k].path = AudioFilePath
              /\ \A j \in 1..Len(calls) :
                    calls[j].op \in {"mkdirSync", "ffprobe", "ffmpeg"} => j < k
        /\ Len(formatLog) <= 1
        /\ formatLog # << >> =>
              /\ LastFormat.site = "fallback"
              /\ OkCallIndexes("convert") # {}
              /\ \E n \in 0..Len(Body(transcription)) :
                    file = <<Header>> \o SubSeq(Body(transcription), 1, n)
        /\ formatLog = << >> => file = <<Header>>
        /\ pc = "done" =>
              /\ Cardinality(converts) = 1
              /\ OkCallIndexes("convert") # {} => Len(formatLog) = 1
              /\ exitCode = 0 <=>
                    /\ OkCallIndexes("convert") # {}
                    /\ \A k \in CallIndexes("appendFile") : calls[k].ok
              /\ exitCode = 0 => file = <<Header>> \o Body(transcription)

\* C22's case: an extraction that failed after a segment had been extracted, in a run
\* that went on to return 0 with a body in the file
C22_Witness ==
    /\ SplitFailed
    /\ pc = "done" /\ exitCode = 0
    /\ splitError[1].message = "ffmpeg"
    /\ segFiles # {}
    /\ Len(file) >= 2

(***************************************************************************)
(* The recognition adapter: its failure, its words, its messages.          *)
(***************************************************************************)
\* C23: a call of transcribeSegment makes exactly one call to the service; when that
\* call fails, no result is returned, no second call is made, and the failure thrown
\* to the caller carries the path of the failing chunk and the underlying cause.
C23_OneCallAndAFailureWithPathAndCause ==
    /\ Len(tRequests) <= 1
    /\ tpc \in {"returned", "thrown"} => Len(tRequests) = 1
    /\ (tResponse # << >> /\ ~tResponse[1].ok) =>
          /\ tpc = "thrown"
          /\ tResult = << >>
          /\ tThrown # << >>
          /\ "path" \in DOMAIN tThrown[1]
          /\ tThrown[1].path = tRequests[1].file
          /\ "cause" \in DOMAIN tThrown[1]
          /\ tThrown[1].cause = tResponse[1].value

\* a field of the word as the claim has it: the default when it is absent, else its value
FieldOrDefault(opt, d) == IF opt = << >> THEN d ELSE opt[1]

\* C24: the words returned are the words of the answer, one for one and in order; a
\* field missing from the answer has its default (text empty, start 0, end 0,
\* confidence 1, type "word") and a field that is present keeps its value.
C24_WordsKeptWithDefaultsForMissingFields ==
    tpc = "returned" =>
        LET raw == tResponse[1].value.words
            words == tResult[1].words
        IN /\ Len(words) = Len(raw)
           /\ \A i \in 1..Len(raw) :
                 /\ words[i].text = FieldOrDefault(raw[i].text, << >>)
                 /\ words[i].start = FieldOrDefault(raw[i].start, 0)
                 /\ words[i].end = FieldOrDefault(raw[i].end, 0)
                 /\ words[i].confidence = FieldOrDefault(raw[i].confidence, 100)
                 /\ words[i].type = FieldOrDefault(raw[i].type, "word")

\* C26: with debug mode disabled no message written on a failure holds a raw stack
\* trace.
C26_NoStackTraceUnlessDebug ==
    ~debugMode =>
        \A i \in 1..Len(tConsole) :
            \A j \in 1..Len(tConsole[i]) : tConsole[i][j] # StackFrames

(***************************************************************************)
(* The echo of the formatter.                                              *)
(***************************************************************************)
\* echo is the line without the white space at its end
IsEchoOf(echo, line) ==
    /\ Len(echo) <= Len(line)
    /\ echo = SubSeq(line, 1, Len(echo))
    /\ \A j \in (Len(echo) + 1)..Len(line) : line[j] \in Whitespace
    /\ echo # << >> => echo[1] \notin Whitespace /\ echo[Len(echo)] \notin Whitespace

C27_FallbackOnlyAfterAFailedSplit ==
    /\ pc = "fallback" =>
          /\ SplitFailed
          /\ CallIndexes("convert") = {}
          /\ CallIndexes("appendFile") = {}
    /\ Cardinality({k \in CallIndexes("convert") : calls[k].path = AudioFilePath}) <= 1
    /\ Cardinality(CallIndexes("convert"))
          <= (IF Len(segmentPaths) > 1 THEN Len(segmentPaths) ELSE 1)
    /\ Len(formatLog) <= 1
    /\ formatLog # << >> =>
          \E n \in 0..Len(Body(transcription)) :
              file = <<Header>> \o SubSeq(Body(transcription), 1, n)

\* splitAudio returned two segments or more
MultiChunkRun == splitOk /\ Len(segmentPaths) >= 2

\* C28: in a run of several segments, no deletion is attempted before the last append of
\* the merged body; the deletions are attempted for the segments in order, whether or
\* not one of them fails; a run that came to its cleanup returns 0; and a run that
\* returned 0 has attempted the deletion of each of its segment files.
C28_CleanupAfterTheBodyForEverySegment ==
    MultiChunkRun =>
        /\ \A u \in CallIndexes("unlink") :
              /\ formatLog # << >> /\ LastFormat.site = "multi" /\ LastFormat.done
              /\ \A a \in CallIndexes("appendFile") : a < u
        /\ LET unlinks == {k \in 1..Len(calls) : calls[k].op = "unlink"} IN
              /\ Cardinality(unlinks) = unlinked
              /\ \A i \in 1..Len(segmentPaths) :
                    Cardinality({k \in unlinks : calls[k].path = segmentPaths[i]})
                        = (IF i <= unlinked THEN 1 ELSE 0)
        /\ (pc = "done" /\ unlinked > 0) => (unlinked = Len(segmentPaths) /\ exitCode = 0)
        /\ (pc = "done" /\ exitCode = 0) => unlinked = Len(segmentPaths)

====
